----------------------------- MODULE StreamSetup -----------------------------
(***************************************************************************)
(* Configuring a stream: the setters of lib/bgpstream.c, the options of    *)
(* lib/bgpstream_datasource.c and the intervals of lib/bgpstream_filter.c, *)
(* up to the data source that bgpstream_start creates from them.  The      *)
(* setters may be called at any time and in any order, and do nothing      *)
(* unless the stream is only allocated; a start that fails may be repeated *)
(* after more of them.                                                     *)
(***************************************************************************)
EXTENDS Integers, Sequences, SequencesExt

CONSTANTS
  Calls,        \* calls of setters a user may make: [op, ...]
  Now,          \* the time of the calls
  TIMES,        \* the number of values of a time, 2^32
  MaxCalls      \* bound: calls that take effect

VARIABLES
  bs,           \* the stream and its managers
  ds,           \* the data sources, NULL or what each was created with
  calls,        \* the calls made until the stream was started
  period_late   \* a RIB period was set later

setup_vars == <<bs, ds, calls, period_late>>

NULL == <<>>
NOT_SET == "not-set"
FOREVER == 0

Interfaces == {"broker", "singlefile", "csvfile", "sqlite"}

\* Options by interface and id, but for the parameters of the broker, of which
\* there may be many.
Options ==
  {<<"singlefile", 0>>, <<"singlefile", 1>>, <<"csvfile", 0>>, <<"sqlite", 0>>, <<"broker", 0>>}
URL == <<"broker", 0>>
PARAM == <<"broker", 1>>

\* As it is configured without options: the URL of the broker is set.
Defaults == [o \in Options |-> IF o = URL THEN "default" ELSE NOT_SET]

Init ==
  /\ bs = [status |-> "ALLOCATED", datasource |-> "broker", blocking |-> FALSE,
           ds_status |-> "OFF", options |-> Defaults, broker_params |-> <<>>, time_intervals |-> <<>>,
           rib_period |-> 0]
  /\ ds = [i \in Interfaces |-> NULL]
  /\ calls = <<>>
  /\ period_late = FALSE

\* The calls there are.
SetterCalls ==
  [op : {"live"}]
    \cup [op : {"rib_period"}, period : Nat]
    \cup [op : {"interval"}, begin : Nat, end : Nat]
    \cup [op : {"recent"}, count : Nat, unit : STRING, islive : BOOLEAN]
    \cup [op : {"option"}, option : Options \cup {PARAM}, value : STRING \ {NOT_SET}]
    \cup [op : {"interface"}, interface : Interfaces]

-----------------------------------------------------------------------------
(* The setters *)

SetLiveMode(b) == [b EXCEPT !.blocking = TRUE]

\* The newest interval is the first.
IntervalFilterAdd(b, begin, end) ==
  [b EXCEPT !.time_intervals = <<[begin_time |-> begin, end_time |-> end]>> \o @]

AddIntervalFilter(b, begin, end) ==
  IntervalFilterAdd(IF end = FOREVER THEN SetLiveMode(b) ELSE b, begin, end)

UnitSecs == [u \in {"s", "m", "h", "d"} |->
               CASE u = "s" -> 1 [] u = "m" -> 60 [] u = "h" -> 60 * 60 [] u = "d" -> 60 * 60 * 24]

\* time_calc_recent_interval: the seconds to go back may be more than there have
\* been, or than fit.
RecentStart(count, unit) == (Now - ((count * UnitSecs[unit]) % TIMES)) % TIMES

\* A text with another unit, or none, is refused.
AddRecentIntervalFilter(b, count, unit, islive) ==
  IF unit \notin DOMAIN UnitSecs THEN b
  ELSE IF islive THEN IntervalFilterAdd(SetLiveMode(b), RecentStart(count, unit), FOREVER)
  ELSE IntervalFilterAdd(b, RecentStart(count, unit), Now)

\* An option replaces the one before, which is freed.
StoreOption(b, o, value) ==
  IF o = PARAM THEN [b EXCEPT !.broker_params = Append(@, value)]
  ELSE [b EXCEPT !.options[o] = value]

\* The case of sqlite has no break and falls into that of the broker.
SetDataInterfaceOption(b, o, value) ==
  IF o[1] = "sqlite" THEN StoreOption(StoreOption(b, o, value), <<"broker", o[2]>>, value)
  ELSE StoreOption(b, o, value)

Apply(b, c) ==
  CASE c.op = "live" -> SetLiveMode(b)
    [] c.op = "interval" -> AddIntervalFilter(b, c.begin, c.end)
    [] c.op = "recent" -> AddRecentIntervalFilter(b, c.count, c.unit, c.islive)
    [] c.op = "rib_period" -> [b EXCEPT !.rib_period = c.period]
    [] c.op = "option" -> SetDataInterfaceOption(b, c.option, c.value)
    [] c.op = "interface" -> [b EXCEPT !.datasource = c.interface]

\* Mutant of Configure: the setters take effect at any time.
ConfigureAnyTime(c) ==
  /\ bs.status # "FREED"
  /\ bs' = Apply(bs, c)
  /\ IF bs.status = "ALLOCATED"
     THEN Len(calls) < MaxCalls /\ calls' = Append(calls, c)
     ELSE UNCHANGED calls
  /\ UNCHANGED <<ds, period_late>>

\* A call: it is ignored unless the stream is only allocated.
Configure(c) ==
  /\ bs.status # "FREED"
  /\ IF bs.status = "ALLOCATED"
     THEN /\ Len(calls) < MaxCalls
          /\ bs' = Apply(bs, c)
          /\ calls' = Append(calls, c)
          /\ UNCHANGED period_late
     ELSE /\ period_late' = (period_late \/ c.op = "rib_period")
          /\ UNCHANGED <<bs, calls>>
  /\ UNCHANGED ds

-----------------------------------------------------------------------------

\* filter_mgr_validate
Valid(b) ==
  \A i \in DOMAIN b.time_intervals :
    LET tif == b.time_intervals[i]
    IN  tif.end_time = FOREVER \/ tif.begin_time <= tif.end_time

\* datasource_mgr_init: what the source is made from; all but the single files
\* have to have it.
Created(b) ==
  [options |-> [o \in {p \in Options : p[1] = b.datasource} |-> b.options[o]],
   params |-> IF b.datasource = "broker" THEN b.broker_params ELSE <<>>,
   time_intervals |-> b.time_intervals]

CanCreate(b) ==
  \/ b.datasource = "singlefile"
  \/ \A o \in Options : o[1] = b.datasource => b.options[o] # NOT_SET

\* start.  If the intervals are not valid nothing changes.  If the source cannot
\* be created (all but the single files may also fail to open what they are
\* given) the stream stays as it is, and the user may go on with more calls.
Start ==
  /\ bs.status = "ALLOCATED"
  /\ Valid(bs)
  /\ \/ /\ CanCreate(bs)
        /\ ds' = [ds EXCEPT ![bs.datasource] = Created(bs)]
        /\ bs' = [bs EXCEPT !.status = "ON", !.ds_status = "ON"]
     \/ /\ bs.datasource # "singlefile"
        /\ ds' = [ds EXCEPT ![bs.datasource] = NULL]
        /\ bs' = [bs EXCEPT !.ds_status = "ERROR"]
  /\ UNCHANGED <<calls, period_late>>

Stop ==
  /\ bs.status = "ON"
  /\ ds' = [ds EXCEPT ![bs.datasource] = NULL]
  /\ bs' = [bs EXCEPT !.status = "OFF", !.ds_status = "OFF"]
  /\ UNCHANGED <<calls, period_late>>

Destroy ==
  /\ bs.status # "FREED"
  /\ ds' = [i \in Interfaces |-> NULL]
  /\ bs' = [bs EXCEPT !.status = "FREED"]
  /\ UNCHANGED <<calls, period_late>>

Next == (\E c \in Calls : Configure(c)) \/ Start \/ Stop \/ Destroy

-----------------------------------------------------------------------------

\* The calls of a kind among others, in their order.
Among(cs, kind) == FoldLeft(LAMBDA s, c : IF c \in kind THEN Append(s, c) ELSE s, <<>>, cs)

\* The setter calls, by what they set.
Choosing == {c \in Calls : c.op = "interface"}
Periods == {c \in Calls : c.op = "rib_period"}
Setting(o) == {c \in Calls : c.op = "option" /\ c.option = o}
Times ==
  {c \in Calls : c.op = "interval" \/ (c.op = "recent" /\ c.unit \in DOMAIN UnitSecs)}
Live ==
  {c \in Calls : \/ c.op = "live"
                 \/ c.op = "interval" /\ c.end = FOREVER
                 \/ c.op = "recent" /\ c.unit \in DOMAIN UnitSecs /\ c.islive}

\* What the calls ask for.
Made(kind) == Among(calls, kind)
AskedInterface == IF Made(Choosing) = <<>> THEN "broker" ELSE Last(Made(Choosing)).interface
AskedPeriod == IF Made(Periods) = <<>> THEN 0 ELSE Last(Made(Periods)).period
AskedOption(o) == IF Made(Setting(o)) = <<>> THEN Defaults[o] ELSE Last(Made(Setting(o))).value
AskedParams == [i \in DOMAIN Made(Setting(PARAM)) |-> Made(Setting(PARAM))[i].value]
AskedTimes == Made(Times)
AskedLive == Made(Live) # <<>>

\* An interval is the one that was asked for.
IsAsked(tif, c) ==
  IF c.op = "interval" THEN tif = [begin_time |-> c.begin, end_time |-> c.end]
  ELSE LET secs == c.count * UnitSecs[c.unit]
       IN  /\ secs <= Now => tif.begin_time = Now - secs
           /\ tif.end_time = IF c.islive THEN FOREVER ELSE Now

\* A stream runs with what its user asked for before it started, whatever the
\* order of the calls, and however often it could not be started or a setter
\* was called too late: the last value of every option, all intervals (the
\* newest first), none of them turned around, and live mode exactly if an
\* interval has no end or it was asked for.  One source exists while the stream
\* is on, and none before or after.  Known exceptions: an option of sqlite is
\* one of the broker too, an interval that goes back beyond time 0 starts
\* somewhere else, and a RIB period that is set while the stream runs is ignored,
\* although bgpstream.h says that it can be changed at run time.
SetupIsTheUsers ==
  /\ bs.status = "ON" =>
       /\ {i \in Interfaces : ds[i] # NULL} = {AskedInterface}
       /\ bs.ds_status = "ON"
       /\ LET made == ds[AskedInterface]
              intervals == Reverse(made.time_intervals)
          IN  /\ \A o \in DOMAIN made.options :
                   \/ made.options[o] = AskedOption(o)
                   \/ o = URL /\ AskedOption(<<"sqlite", 0>>) # NOT_SET
              /\ AskedInterface = "broker" => made.params = AskedParams
              /\ Len(intervals) = Len(AskedTimes)
              /\ \A i \in DOMAIN intervals :
                   /\ IsAsked(intervals[i], AskedTimes[i])
                   /\ \/ intervals[i].end_time = FOREVER
                      \/ intervals[i].begin_time <= intervals[i].end_time
       /\ bs.blocking = AskedLive
       /\ ~period_late => bs.rib_period = AskedPeriod
  /\ bs.status # "ON" => \A i \in Interfaces : ds[i] = NULL

=============================================================================
