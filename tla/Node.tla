-------------------------------- MODULE Node --------------------------------
(***************************************************************************)
(* One process of the program (main.cpp): set-up, the sender's chain of    *)
(* timers or the subscriber's wait, signals, --run-for-sec, and shutdown,  *)
(* together with the ConfigManager it runs.                                *)
(*                                                                         *)
(* One event loop runs one handler at a time, so a handler is one step;    *)
(* a signal may arrive at any time, also within a handler, and the file    *)
(* may change at any time.  Time passes in ticks; the timers that are      *)
(* armed count down.                                                       *)
(***************************************************************************)
EXTENDS ConfigManager, FiniteSets

CONSTANTS
    Options,    \* command lines: what CliParser::parse returns
    WarmUp,     \* ticks before the sender's timer starts (100 ms)
    QuitDelay,  \* ticks between its last timeout and quit (100 ms)
    FlushTime,  \* ticks the flush at the end may take (1000 ms)
    MaxLag,     \* bound: ticks the event loop runs a timer late
    Horizon     \* bound: uptime and ages count so far

\* What CliParser::parse lets through; run_for is 0 for a process that does
\* not stop by itself.
CliOptions ==
    [role: {"sender", "subscriber"}, reliable: BOOLEAN, count: Nat \ {0},
     interval: Nat \ {0}, delay: Nat, run_for: Nat, level: Valid["level"]]

ASSUME OptionsAssumption ==
    \A o \in Options : o \in CliOptions /\ o.interval > MaxLag
ASSUME DurationsAssumption ==
    /\ WarmUp \in Nat /\ QuitDelay \in Nat /\ FlushTime \in Nat
    /\ MaxLag \in Nat /\ Horizon \in Nat

VARIABLES
    opts,               \* the command line
    pc,                 \* where main is
    shutdownRequested,  \* the flag of signalHandler
    quit,               \* the event loop was told to end
    delay,              \* ticks left of --start-delay-ms
    timers,             \* armed timers -> ticks until they are due
    remaining,          \* messages still to publish
    pending,            \* AckManager: message -> ticks since it was published
    elapsed,            \* ticks in the flush loop main is in
    published,          \* history: messages published
    uptime,             \* history: ticks since the file is watched
    exitCode,           \* history: the result of main
    heardAt             \* history: messages published when the first signal came

processVars == <<opts, pc, shutdownRequested, quit, delay, timers, remaining,
                 pending, elapsed, published, uptime, exitCode, heardAt>>
vars == <<processVars, configVars>>

Places == {"load", "set_up", "asleep", "exec", "flush", "shutdown", "ended"}
Timers == {"warm_up", "send", "quit", "auto_exit"}

Unarmed == [t \in {} |-> 0]
Nothing == [m \in {} |-> 0]

Init ==
    /\ ConfigInit
    /\ opts \in Options
    /\ pc = "load"
    /\ shutdownRequested = FALSE /\ quit = FALSE
    /\ delay = 0 /\ timers = Unarmed
    /\ remaining = 0 /\ pending = Nothing /\ elapsed = 0
    /\ published = 0 /\ uptime = 0 /\ exitCode = 0 /\ heardAt = 0

Sender == opts.role = "sender"

-----------------------------------------------------------------------------
Armed(t, left) ==
    [u \in DOMAIN timers \cup {t} |-> IF u = t THEN left ELSE timers[u]]

Without(t) == [u \in DOMAIN timers \ {t} |-> timers[u]]

\* Lines 52 to 67: without a file that can be read there is no process.
Load ==
    /\ pc = "load"
    /\ \/ /\ LoadAtStart(opts.level)
          /\ pc' = "set_up"
          /\ UNCHANGED exitCode
       \/ /\ file = Unreadable
          /\ pc' = "ended"
          /\ exitCode' = 1
          /\ UNCHANGED configVars
    /\ UNCHANGED <<opts, shutdownRequested, quit, delay, timers, remaining,
                   pending, elapsed, published, uptime, heardAt>>

\* Fault: the time to run counts from the end of the start delay.
AutoExitAfterDelay(o) ==
    IF o.run_for > 0 THEN Armed("auto_exit", o.run_for + o.delay) ELSE timers

AutoExit(o) == IF o.run_for > 0 THEN Armed("auto_exit", o.run_for) ELSE timers

\* Lines 69 to 124: the file is watched, the time to run begins, and a sender
\* sleeps, its event loop not running yet.
SetUp ==
    /\ pc = "set_up"
    /\ startWatching
    /\ timers' = AutoExit(opts)
    /\ delay' = IF Sender THEN opts.delay ELSE 0
    /\ pc' = "asleep"
    /\ UNCHANGED <<opts, shutdownRequested, quit, remaining, pending, elapsed,
                   published, uptime, exitCode, heardAt>>

\* exec forgets any quit that was asked for before.
EnterExec ==
    /\ pc = "asleep" /\ delay = 0
    /\ pc' = "exec"
    /\ IF Sender
         THEN /\ remaining' = opts.count
              /\ timers' = Armed("warm_up", WarmUp)
         ELSE UNCHANGED <<remaining, timers>>
    /\ UNCHANGED <<opts, shutdownRequested, quit, delay, pending, elapsed,
                   published, uptime, exitCode, heardAt, configVars>>

(***************************************************************************)
(* signalHandler, from line 70 on.  quit reaches a loop that runs, no      *)
(* other: before exec and in the flush loops nothing but the flag is left  *)
(* of it.  A signal may interrupt a handler: SendTimerFires has the one    *)
(* place where that is not the same as a signal after it.                  *)
(***************************************************************************)
SignalArrives ==
    /\ shutdownRequested' = TRUE
    /\ quit' = (quit \/ pc = "exec")
    /\ heardAt' = IF shutdownRequested THEN heardAt ELSE published

Signal ==
    /\ pc \in Places \ {"load", "ended"}
    /\ SignalArrives
    /\ UNCHANGED <<opts, pc, delay, timers, remaining, pending, elapsed,
                   published, uptime, exitCode, configVars>>

-----------------------------------------------------------------------------
\* The loop condition of both flush loops.
Flushing == pending # Nothing /\ elapsed < FlushTime

\* Handlers run in exec and in the processEvents of the flush loops, one at a
\* time.
Dispatching ==
    /\ ~reloading
    /\ pc = "exec" \/ (pc \in {"flush", "shutdown"} /\ Flushing)

Due(t) == Dispatching /\ t \in DOMAIN timers /\ timers[t] <= 0

WarmUpFires ==
    /\ Due("warm_up")
    /\ timers' = [t \in (DOMAIN timers \ {"warm_up"}) \cup {"send"} |->
                    IF t = "send" THEN opts.interval ELSE timers[t]]
    /\ UNCHANGED <<opts, pc, shutdownRequested, quit, delay, remaining, pending,
                   elapsed, published, uptime, exitCode, heardAt, configVars>>

\* Faults: the last message is not sent; one too many is; the flag is not
\* looked at.
FinishedEarly == remaining <= 1 \/ shutdownRequested

FinishedLate == remaining < 0 \/ shutdownRequested

FinishedRegardless == remaining <= 0

Finished == remaining <= 0 \/ shutdownRequested

\* Faults: no time is left after the last timeout; nobody is told to quit.
QuitAtOnce == [u \in (DOMAIN timers \ {"send"}) \cup {"quit"} |->
    IF u = "quit" THEN 0 ELSE timers[u]]

NeverQuit == Without("send")

QuitSoon == [u \in (DOMAIN timers \ {"send"}) \cup {"quit"} |->
    IF u = "quit" THEN QuitDelay ELSE timers[u]]

\* pub.publish: a reliable message stays in AckManager until it is settled.
Publish ==
    /\ published' = published + 1
    /\ remaining' = remaining - 1
    /\ pending' = IF opts.reliable
                    THEN [m \in DOMAIN pending \cup {published'} |->
                             IF m = published' THEN 0 ELSE pending[m]]
                    ELSE pending

\* The timeout of sendTimer; Qt arms it again from when it was due or from now.
\* A signal may come between the look at the flag and the publication.
SendTimerFires ==
    /\ Due("send")
    /\ \/ /\ Finished
          /\ timers' = QuitSoon
          /\ UNCHANGED <<published, remaining, pending, shutdownRequested, quit, heardAt>>
       \/ /\ ~Finished
          /\ Publish
          /\ \E left \in {opts.interval, timers["send"] + opts.interval} :
                timers' = Armed("send", left)
          /\ SignalArrives \/ UNCHANGED <<shutdownRequested, quit, heardAt>>
    /\ UNCHANGED <<opts, pc, delay, elapsed, uptime, exitCode, configVars>>

\* The two single shots that end the loop.
QuitFires(t) ==
    /\ t \in {"quit", "auto_exit"} /\ Due(t)
    /\ quit' = (pc = "exec")
    /\ timers' = Without(t)
    /\ UNCHANGED <<opts, pc, shutdownRequested, delay, remaining, pending, elapsed,
                   published, uptime, exitCode, heardAt, configVars>>

\* An ACK comes, or the message is given up (RetryTable).
Settle(m) ==
    /\ Dispatching
    /\ pending' = [j \in DOMAIN pending \ {m} |-> pending[j]]
    /\ UNCHANGED <<opts, pc, shutdownRequested, quit, delay, timers, remaining,
                   elapsed, published, uptime, exitCode, heardAt, configVars>>

\* The watcher's signal, and the rest of its handler.
Reload ==
    /\ \/ Dispatching /\ onConfigFileChanged
       \/ LoadAgain
    /\ UNCHANGED processVars

-----------------------------------------------------------------------------
(***************************************************************************)
(* The loop ends.  The sender returns from line 154; only for a subscriber *)
(* was the handler of aboutToQuit connected.                               *)
(***************************************************************************)
LeaveExec ==
    /\ pc = "exec" /\ quit /\ ~reloading
    /\ pc' = IF Sender THEN "ended" ELSE "flush"
    /\ elapsed' = 0
    /\ UNCHANGED <<opts, shutdownRequested, quit, delay, timers, remaining, pending,
                   published, uptime, exitCode, heardAt, configVars>>

\* The end of main's loop, then of the one in DDSCore::shutdown.
EndFlush ==
    /\ pc \in {"flush", "shutdown"} /\ ~Flushing /\ ~reloading
    /\ pc' = IF pc = "flush" THEN "shutdown" ELSE "ended"
    /\ elapsed' = 0
    /\ UNCHANGED <<opts, shutdownRequested, quit, delay, timers, remaining, pending,
                   published, uptime, exitCode, heardAt, configVars>>

-----------------------------------------------------------------------------
Later(n) == IF n < Horizon THEN n + 1 ELSE n

Overdue == \E t \in DOMAIN timers : timers[t] <= -MaxLag

\* Where main waits: in msleep, in the event loop unless there is something to
\* do at once, in the flush loops.
Waiting ==
    CASE pc = "asleep"                -> delay > 0
      [] pc = "exec"                  -> ~reloading /\ ~quit /\ ~Overdue
      [] pc \in {"flush", "shutdown"} -> ~reloading /\ Flushing
      [] OTHER                        -> FALSE

Tick ==
    /\ Waiting
    /\ delay' = IF delay > 0 THEN delay - 1 ELSE 0
    /\ timers' = [t \in DOMAIN timers |-> timers[t] - 1]
    /\ pending' = [m \in DOMAIN pending |-> Later(pending[m])]
    /\ elapsed' = IF pc \in {"flush", "shutdown"} THEN elapsed + 1 ELSE 0
    /\ uptime' = Later(uptime)
    /\ UNCHANGED <<opts, pc, shutdownRequested, quit, remaining, published,
                   exitCode, heardAt, configVars>>

\* Somebody edits the file; nobody looks after the end.
Edit(c) == pc # "ended" /\ Write(c) /\ UNCHANGED processVars

Next ==
    \/ Load \/ SetUp \/ EnterExec
    \/ WarmUpFires \/ SendTimerFires
    \/ \E t \in Timers : QuitFires(t)
    \/ \E m \in DOMAIN pending : Settle(m)
    \/ Reload
    \/ LeaveExec \/ EndFlush
    \/ Tick \/ Signal
    \/ \E c \in Contents \cup {Unreadable} : Edit(c)

\* main goes on, its timers are served, changes are noticed and time passes;
\* nobody has to settle a message, send a signal or edit the file.
Fairness ==
    /\ WF_vars(Load) /\ WF_vars(SetUp) /\ WF_vars(EnterExec)
    /\ WF_vars(WarmUpFires) /\ WF_vars(SendTimerFires)
    /\ \A t \in Timers : WF_vars(QuitFires(t))
    /\ WF_vars(Reload) /\ WF_vars(LeaveExec) /\ WF_vars(EndFlush)
    /\ WF_vars(Tick)

Spec == Init /\ [][Next]_vars /\ Fairness

-----------------------------------------------------------------------------
\* Types; timers and messages are a sender's, but for the one that ends any
\* process.
TypeOK ==
    /\ ConfigTypeOK
    /\ opts \in Options
    /\ pc \in Places
    /\ shutdownRequested \in BOOLEAN /\ quit \in BOOLEAN
    /\ delay \in 0 .. opts.delay
    /\ DOMAIN timers \subseteq Timers
    /\ ~Sender => DOMAIN timers \subseteq {"auto_exit"}
    /\ remaining \in 0 .. opts.count
    /\ DOMAIN pending \subseteq 1 .. published
    /\ \A m \in DOMAIN pending : pending[m] \in 0 .. Horizon
    /\ published \in Nat
    /\ exitCode \in {0, 1}
    /\ heardAt \in 0 .. published

\* The auto-exit single shot was never armed or is still to come.
NotTimedOut == opts.run_for > 0 => "auto_exit" \in DOMAIN timers

EndedByItself ==
    pc = "ended" /\ exitCode = 0 /\ ~shutdownRequested /\ NotTimedOut

(***************************************************************************)
(* A sender that nobody stops publishes as many messages as --count says,  *)
(* whatever the order in which its timers fire late; it never publishes    *)
(* more.                                                                   *)
(***************************************************************************)
PublishesInFull ==
    Sender => /\ published <= opts.count
              /\ EndedByItself => published = opts.count

(***************************************************************************)
(* The process does not flush, so that this is all the time a reliable     *)
(* message has: one that is still unsettled when a sender ends by itself   *)
(* was published at least an interval and the 100 ms of line 139 before.   *)
(***************************************************************************)
LastMessageGrace ==
    Sender /\ EndedByItself =>
        \A m \in DOMAIN pending : pending[m] >= opts.interval + QuitDelay - MaxLag

(***************************************************************************)
(* When a process ends at the latest: a sender has its start delay, its    *)
(* warm-up, one timeout for each message and one more; with --run-for-sec, *)
(* which is counted through the start delay, any process ends in time.     *)
(***************************************************************************)
SenderDeadline ==
    opts.delay + WarmUp + MaxLag + (opts.count + 1) * (opts.interval + MaxLag)
               + QuitDelay + MaxLag

AutoDeadline ==
    IF Sender /\ opts.delay > opts.run_for + MaxLag THEN opts.delay
                                                   ELSE opts.run_for + MaxLag

EndsInTime ==
    pc # "ended" =>
        /\ Sender => uptime <= SenderDeadline
        /\ opts.run_for > 0 => uptime <= AutoDeadline

(***************************************************************************)
(* A sender that was sent a signal stops soon: it publishes at most the    *)
(* message whose handler the signal interrupted.  When the signal came     *)
(* before the event loop ran, so that its quit was lost, it publishes      *)
(* nothing, and the first timeout of its timer ends it.                    *)
(***************************************************************************)
FlagDeadline ==
    opts.delay + WarmUp + MaxLag + opts.interval + MaxLag + QuitDelay + MaxLag

StopsSoonAfterSignal ==
    Sender /\ shutdownRequested =>
        /\ published <= heardAt + 1
        /\ pc # "ended" /\ ~quit => published = 0 /\ uptime <= FlagDeadline

(***************************************************************************)
(* A process that a signal tells to stop ends, if it is a sender or its    *)
(* event loop runs; a subscriber loses a signal that comes before.         *)
(***************************************************************************)
StopsOnSignal ==
    (shutdownRequested /\ (Sender \/ quit)) ~> (pc = "ended")

(***************************************************************************)
(* In a process at rest the settings are those of the file, however often  *)
(* it changed before, between and after the two loads of a reload; except  *)
(* for a change that the watcher did not see, and an unreadable file.      *)
(***************************************************************************)
SettingsCurrent ==
    pc = "exec" /\ ~reloading /\ ~notified /\ ~unseen /\ file # Unreadable
        => \A k \in Settings : Follows(k, opts.level)

-----------------------------------------------------------------------------
(***************************************************************************)
(* "Wait for reliable messages to be flushed" (main.cpp:185): a process    *)
(* that ends with unsettled messages has waited for them.                  *)
(***************************************************************************)
WaitsForReliable == [][pc' = "ended" /\ pc # "ended" =>
                            pending = Nothing \/ elapsed >= FlushTime]_vars

(***************************************************************************)
(* "interval_ms is reloadable" (config_manager.cpp:273): once a change of  *)
(* the file has been noticed and served, announcements are sent at the     *)
(* interval it says.                                                       *)
(***************************************************************************)
IntervalReloaded ==
    pc = "exec" /\ ~reloading /\ ~notified /\ ~unseen /\ file # Unreadable
        => inUse["interval"] = settings["interval"]

=============================================================================
