------------------------------ MODULE MCCorsaro ------------------------------
(* Model checking of Corsaro.                                              *)
EXTENDS Corsaro

MCPlugins == <<"pfxmonitor", "pacifier">>

MCLengths == {-1, 2}

MCMetaRotations == {-1, 1}

=============================================================================
