------------------------------- MODULE MCNode -------------------------------
(***************************************************************************)
(* Small instances of Node for TLC.                                        *)
(***************************************************************************)
EXTENDS Node, TLC

CONSTANT broken

MCKept == {"level", "interval", "max_retries"}

MCCleared == {"topics"}

MCDefaults == "level" :> "info" @@ "interval" :> 3 @@ "max_retries" :> 3 @@ "topics" :> {}

\* The shortest interval the code accepts is 2 here.
MCValid == "level" :> {"info", "debug", "warn"} @@ "interval" :> {2, 3, 4}
           @@ "max_retries" :> 0 .. 5 @@ "topics" :> SUBSET {"t"}

MCFallback == "level" :> "info" @@ "interval" :> 2 @@ "max_retries" :> 3 @@ "topics" :> {}

\* All settings; some, one of them not accepted; a list that is gone.
MCContents == {
    "level" :> "info" @@ "interval" :> 3 @@ "max_retries" :> 3 @@ "topics" :> {"t"},
    "level" :> "debug" @@ "interval" :> 1 @@ "topics" :> {"t"},
    "interval" :> 4 @@ "max_retries" :> 5}

MCFixedContents == {"interval" :> 3 @@ "topics" :> {"t"}}

Command(role, count, interval, start, run) ==
    [role |-> role, reliable |-> TRUE, count |-> count, interval |-> interval,
     delay |-> start, run_for |-> run, level |-> "warn"]

BestEffort(o) == [o EXCEPT !.reliable = FALSE]

\* Senders that end by themselves, after a start delay, in time or at once;
\* subscribers that run for ever or for a while.
MCOptions == {
    Command("sender", 2, 2, 0, 0),
    BestEffort(Command("sender", 1, 3, 1, 3)),
    Command("sender", 2, 2, 3, 2),
    Command("subscriber", 1, 2, 0, 0),
    Command("subscriber", 1, 2, 0, 2)}

\* uptime counts as far as EndsInTime looks.
ASSUME HorizonAssumption ==
    \A o \in Options :
        Horizon > o.delay + WarmUp + QuitDelay + 2 * MaxLag + (o.count + 1) * (o.interval + MaxLag)

=============================================================================
