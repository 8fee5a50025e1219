----------------------------- MODULE NodeProofs -----------------------------
(***************************************************************************)
(* Theorems about Node, for every command line, every set of settings and  *)
(* contents of the file, and all durations.                                *)
(***************************************************************************)
EXTENDS Node, TLAPS

(***************************************************************************)
(* Types.  TypeOK does not say that timers and ages are functions to       *)
(* numbers, which the next step relies on.                                 *)
(***************************************************************************)
TypeInv ==
    /\ TypeOK
    /\ timers \in [DOMAIN timers -> Int]
    /\ pending \in [DOMAIN pending -> 0 .. Horizon]
    /\ elapsed \in Nat /\ uptime \in Nat

LEMMA OptionTypes ==
    ASSUME TypeOK
    PROVE  /\ opts.count \in Nat \ {0} /\ opts.interval \in Nat \ {0}
           /\ opts.delay \in Nat /\ opts.run_for \in Nat
           /\ opts.interval > MaxLag
BY OptionsAssumption DEF TypeOK, CliOptions

LEMMA ParsedDomain == \A s, f : DOMAIN Parsed(s, f) = Settings
BY DEF Parsed

\* The timers that Armed, Without, QuitSoon leave.
LEMMA ArmedType ==
    ASSUME timers \in [DOMAIN timers -> Int], NEW t, NEW left \in Int
    PROVE  /\ Armed(t, left) \in [DOMAIN Armed(t, left) -> Int]
           /\ DOMAIN Armed(t, left) = DOMAIN timers \cup {t}
BY DEF Armed

LEMMA WithoutType ==
    ASSUME timers \in [DOMAIN timers -> Int], NEW t
    PROVE  Without(t) \in [DOMAIN timers \ {t} -> Int]
BY DEF Without

LEMMA QuitSoonType ==
    ASSUME timers \in [DOMAIN timers -> Int]
    PROVE  QuitSoon \in [(DOMAIN timers \ {"send"}) \cup {"quit"} -> Int]
BY DurationsAssumption DEF QuitSoon

LEMMA TypeInit == Init => TypeInv
<1> SUFFICES ASSUME Init PROVE TypeInv
    OBVIOUS
<1>1. opts.count \in Nat \ {0} /\ opts.delay \in Nat
    BY OptionsAssumption DEF Init, CliOptions
<1>2. ConfigTypeOK
    <2>1. DOMAIN settings = Settings
        BY SettingsAssumption DEF Init, ConfigInit
    <2>2. DOMAIN inUse = Reloadable
        BY DEF Init, ConfigInit
    <2>3. writes \in 0 .. MaxWrites
        BY WritesAssumption DEF Init, ConfigInit
    <2> QED BY <2>1, <2>2, <2>3 DEF Init, ConfigInit, ConfigTypeOK
<1>3. /\ DOMAIN timers = {} /\ DOMAIN pending = {}
      /\ timers \in [DOMAIN timers -> Int] /\ pending \in [DOMAIN pending -> 0 .. Horizon]
    BY DEF Init, Unarmed, Nothing
<1>4. TypeOK
    <2>0. quit \in BOOLEAN /\ shutdownRequested \in BOOLEAN
        BY DEF Init
    <2>1. /\ opts \in Options /\ pc \in Places
          /\ delay \in 0 .. opts.delay /\ remaining \in 0 .. opts.count
          /\ published \in Nat /\ exitCode \in {0, 1} /\ heardAt \in 0 .. published
        BY <1>1 DEF Init, Places
    <2> QED BY <1>2, <1>3, <2>0, <2>1 DEF TypeOK
<1> QED BY <1>3, <1>4 DEF Init, TypeInv

\* The settings' part of each step.
LEMMA ConfigTypeNext ==
    ASSUME ConfigTypeOK,
           \/ LoadAtStart(opts.level) \/ startWatching \/ onConfigFileChanged
           \/ LoadAgain \/ (\E c \in Contents \cup {Unreadable} : Write(c))
           \/ UNCHANGED configVars
    PROVE  ConfigTypeOK'
<1> USE DEF ConfigTypeOK
<1>1. CASE LoadAtStart(opts.level)
    <2>1. DOMAIN settings' = Settings
        BY <1>1, ParsedDomain DEF LoadAtStart
    <2> QED BY <1>1, <2>1 DEF LoadAtStart
<1>2. CASE startWatching
    BY <1>2 DEF startWatching
<1>3. CASE onConfigFileChanged
    BY <1>3, ParsedDomain DEF onConfigFileChanged
<1>4. CASE LoadAgain
    BY <1>4, ParsedDomain DEF LoadAgain
<1>5. CASE \E c \in Contents \cup {Unreadable} : Write(c)
    <2>1. PICK c \in Contents \cup {Unreadable} : Write(c)
        BY <1>5
    <2>2. /\ file' \in Contents \cup {Unreadable} /\ writes' \in 0 .. MaxWrites
          /\ settings' = settings /\ inUse' = inUse
        BY <2>1, WritesAssumption DEF Write
    <2>3. watched' \in BOOLEAN /\ notified' \in BOOLEAN /\ unseen' \in BOOLEAN
        BY <2>1 DEF Write
    <2>4. UNCHANGED <<reloading, reloaded>>
        BY <2>1 DEF Write
    <2> QED BY <2>2, <2>3, <2>4
<1>6. CASE UNCHANGED configVars
    BY <1>6 DEF configVars
<1> QED BY <1>1, <1>2, <1>3, <1>4, <1>5, <1>6

LEMMA ConfigSteps ==
    ASSUME [Next]_vars
    PROVE  \/ LoadAtStart(opts.level) \/ startWatching \/ onConfigFileChanged
           \/ LoadAgain \/ (\E c \in Contents \cup {Unreadable} : Write(c))
           \/ UNCHANGED configVars
BY DEF Next, Load, SetUp, EnterExec, WarmUpFires, SendTimerFires, QuitFires, Settle,
       Reload, LeaveExec, EndFlush, Tick, Signal, Edit, vars

\* What a signal that interrupts the send handler changes, and what none does.
LEMMA SendSignal ==
    SendTimerFires =>
        \/ UNCHANGED <<shutdownRequested, quit, heardAt>>
        \/ /\ ~Finished /\ shutdownRequested' = TRUE /\ quit' = (quit \/ pc = "exec")
           /\ heardAt' = IF shutdownRequested THEN heardAt ELSE published
BY DEF SendTimerFires, SignalArrives

LEMMA TypeNext == TypeInv /\ [Next]_vars => TypeInv'
<1> SUFFICES ASSUME TypeInv, [Next]_vars PROVE TypeInv'
    OBVIOUS
<1>0. ConfigTypeOK'
    BY ConfigTypeNext, ConfigSteps DEF TypeInv, TypeOK
<1>o. /\ opts.count \in Nat \ {0} /\ opts.interval \in Nat \ {0}
      /\ opts.delay \in Nat /\ opts.run_for \in Nat
    BY OptionTypes DEF TypeInv
<1>t. timers \in [DOMAIN timers -> Int]
    BY DEF TypeInv
<1> USE DurationsAssumption DEF TypeInv, TypeOK, Places, Timers, Sender
<1>1. CASE Load
    BY <1>0, <1>1 DEF Load
<1>2. CASE SetUp
    <2>1. /\ timers' \in [DOMAIN timers' -> Int]
          /\ DOMAIN timers' \subseteq DOMAIN timers \cup {"auto_exit"}
        <3>1. timers' = AutoExit(opts)
            BY <1>2 DEF SetUp
        <3> HIDE DEF TypeInv, TypeOK, Timers, Places
        <3>2. timers' = timers \/ timers' = Armed("auto_exit", opts.run_for)
            BY <3>1 DEF AutoExit
        <3>3. CASE timers' = Armed("auto_exit", opts.run_for)
            <4>1. opts.run_for \in Int
                BY <1>o
            <4> QED BY <1>t, <4>1, <3>3, ArmedType
        <3> QED BY <1>t, <3>2, <3>3
    <2> QED BY <1>0, <1>2, <1>o, <2>1 DEF SetUp
<1>3. CASE EnterExec
    <2>1. /\ timers' \in [DOMAIN timers' -> Int]
          /\ DOMAIN timers' \subseteq DOMAIN timers \cup (IF Sender THEN {"warm_up"} ELSE {})
        <3>1. \/ ~Sender /\ timers' = timers
              \/ Sender /\ timers' = Armed("warm_up", WarmUp)
            BY <1>3 DEF EnterExec
        <3> HIDE DEF TypeInv, TypeOK, Timers, Places
        <3>2. CASE timers' = Armed("warm_up", WarmUp)
            <4>1. WarmUp \in Int
                BY DurationsAssumption
            <4>2. timers' \in [DOMAIN timers' -> Int] /\ DOMAIN timers' = DOMAIN timers \cup {"warm_up"}
                BY <1>t, <4>1, <3>2, ArmedType
            <4>3. CASE Sender
                BY <4>2, <4>3
            <4>4. CASE ~Sender
                BY <1>t, <3>1, <4>4
            <4> QED BY <4>3, <4>4
        <3> QED BY <1>t, <3>1, <3>2
    <2> QED BY <1>0, <1>3, <1>o, <2>1 DEF EnterExec
<1>4. CASE WarmUpFires
    <2>1. /\ timers' \in [DOMAIN timers' -> Int]
          /\ DOMAIN timers' \subseteq DOMAIN timers \cup {"send"}
          /\ "warm_up" \in DOMAIN timers
        BY <1>4, <1>o DEF WarmUpFires, Due
    <2> QED BY <1>0, <1>4, <2>1 DEF WarmUpFires
<1>5. CASE SendTimerFires
    <2>1. "send" \in DOMAIN timers /\ Sender /\ timers["send"] \in Int
        BY <1>5 DEF SendTimerFires, Due
    <2>s. /\ shutdownRequested' \in BOOLEAN /\ quit' \in BOOLEAN
          /\ heardAt' \in 0 .. published
        <3>1. CASE UNCHANGED <<shutdownRequested, quit, heardAt>>
            BY <3>1
        <3>2. CASE /\ shutdownRequested' = TRUE /\ quit' = (quit \/ pc = "exec")
                   /\ heardAt' = IF shutdownRequested THEN heardAt ELSE published
            <4>1. heardAt' \in 0 .. published
                BY <3>2
            <4>2. shutdownRequested' \in BOOLEAN /\ quit' \in BOOLEAN
                BY <3>2
            <4> QED BY <4>1, <4>2
        <3> QED BY <1>5, <3>1, <3>2, SendSignal
    <2>2. CASE Finished /\ timers' = QuitSoon /\ UNCHANGED <<published, remaining, pending>>
        <3>1. timers' \in [DOMAIN timers' -> Int] /\ DOMAIN timers' \subseteq DOMAIN timers \cup {"quit"}
            BY <2>2, QuitSoonType
        <3> QED BY <1>0, <1>5, <2>1, <2>s, <2>2, <3>1 DEF SendTimerFires
    <2>3. CASE ~Finished /\ Publish /\ (\E left \in {opts.interval, timers["send"] + opts.interval} :
                                           timers' = Armed("send", left))
        <3>1. timers' \in [DOMAIN timers' -> Int] /\ DOMAIN timers' = DOMAIN timers
            <4>1. PICK left \in {opts.interval, timers["send"] + opts.interval} :
                    timers' = Armed("send", left)
                BY <2>3
            <4>2. left \in Int
                BY <1>o, <2>1
            <4> HIDE DEF TypeInv, TypeOK, Timers, Places
            <4> QED BY <1>t, <2>1, <4>1, <4>2, ArmedType
        <3>2. remaining' \in 0 .. opts.count /\ published' \in Nat
            BY <2>3, <1>o DEF Finished, Publish
        <3>3. /\ pending' \in [DOMAIN pending' -> 0 .. Horizon]
              /\ DOMAIN pending' \subseteq 1 .. published'
            BY <2>3 DEF Publish
        <3>4. heardAt' \in 0 .. published'
            BY <2>s, <2>3 DEF Publish
        <3> QED BY <1>0, <1>5, <2>1, <2>s, <3>1, <3>2, <3>3, <3>4 DEF SendTimerFires
    <2> QED BY <1>5, <2>2, <2>3 DEF SendTimerFires
<1>6. ASSUME NEW t \in Timers, QuitFires(t) PROVE TypeInv'
    <2>1. timers' \in [DOMAIN timers \ {t} -> Int]
        BY <1>6, WithoutType DEF QuitFires
    <2> QED BY <1>0, <1>6, <2>1 DEF QuitFires
<1>7. ASSUME NEW m \in DOMAIN pending, Settle(m) PROVE TypeInv'
    <2>1. pending' \in [DOMAIN pending \ {m} -> 0 .. Horizon]
        BY <1>7 DEF Settle
    <2> QED BY <1>0, <1>7, <2>1 DEF Settle
<1>8. CASE Reload
    BY <1>0, <1>8 DEF Reload, processVars
<1>9. CASE LeaveExec
    BY <1>0, <1>9 DEF LeaveExec
<1>10. CASE EndFlush
    BY <1>0, <1>10 DEF EndFlush
<1>11. CASE Tick
    <2>1. timers' \in [DOMAIN timers -> Int]
        BY <1>11 DEF Tick
    <2>2. pending' \in [DOMAIN pending -> 0 .. Horizon]
        BY <1>11 DEF Tick, Later
    <2>3. delay' \in 0 .. opts.delay /\ elapsed' \in Nat /\ uptime' \in Nat
        BY <1>11, <1>o DEF Tick, Later
    <2> QED BY <1>0, <1>11, <2>1, <2>2, <2>3 DEF Tick
<1>12. CASE Signal
    BY <1>0, <1>12 DEF Signal, SignalArrives
<1>13. CASE \E c \in Contents \cup {Unreadable} : Edit(c)
    BY <1>0, <1>13 DEF Edit, processVars
<1>14. CASE UNCHANGED vars
    BY <1>0, <1>14 DEF vars, processVars
<1> QED BY <1>1, <1>2, <1>3, <1>4, <1>5, <1>6, <1>7, <1>8, <1>9, <1>10, <1>11, <1>12,
           <1>13, <1>14 DEF Next

(***************************************************************************)
(* THEOREM: the types of a process, among them that no more messages are   *)
(* left to publish than --count says and that a subscriber has no timer    *)
(* but the one of --run-for-sec.                                           *)
(***************************************************************************)
LEMMA TypesAlways == Spec => []TypeInv
BY TypeInit, TypeNext, PTL DEF Spec

THEOREM TypeCorrect == Spec => []TypeOK
<1>1. TypeInv => TypeOK
    BY DEF TypeInv
<1> QED BY TypesAlways, <1>1, PTL

-----------------------------------------------------------------------------
(***************************************************************************)
(* Settings.  What was read last is current until the file changes, and    *)
(* then a notification is due or the change was not seen.                  *)
(***************************************************************************)
FileRead == ~reloading /\ ~notified /\ ~unseen /\ file # Unreadable

CurrentInv ==
    /\ pc = "load" => ~reloaded /\ ~reloading
    /\ pc # "load" /\ FileRead => \A k \in Settings : Follows(k, opts.level)

\* A file that was just parsed is followed.
LEMMA ParsedFollows ==
    ASSUME file' = file, settings' = Parsed(settings, file), NEW level,
           NEW k \in Settings
    PROVE  Follows(k, level)'
<1>1. settings'[k] = CASE k \in DOMAIN file           -> Accepted(k, file[k])
                       [] k \in Cleared \ DOMAIN file -> None
                       [] OTHER                       -> settings[k]
    BY DEF Parsed
<1>2. CASE k \in DOMAIN file
    BY <1>1, <1>2 DEF Follows, Accepted
<1>3. CASE k \in Cleared \ DOMAIN file
    BY <1>1, <1>3 DEF Follows, Accepted
<1>4. CASE k \in Kept \ DOMAIN file
    BY <1>4 DEF Follows
<1> QED BY <1>2, <1>3, <1>4 DEF Settings

LEMMA CurrentInit == Init => CurrentInv
BY DEF Init, ConfigInit, CurrentInv

LEMMA CurrentNext == CurrentInv /\ [Next]_vars => CurrentInv'
<1> SUFFICES ASSUME CurrentInv, [Next]_vars PROVE CurrentInv'
    OBVIOUS
<1>1. CASE Load
    <2>1. CASE LoadAtStart(opts.level) /\ pc' = "set_up"
        <3>1. opts' = opts /\ file' = file /\ reloaded' = FALSE
            BY <1>1, <2>1 DEF Load, LoadAtStart, CurrentInv
        <3>2. ASSUME NEW k \in Settings PROVE Follows(k, opts.level)'
            <4>1. settings' = [Parsed(settings, file) EXCEPT !["level"] = opts.level]
                BY <2>1 DEF LoadAtStart
            <4>2. CASE k = "level"
                <5>1. settings'[k] = opts.level
                    BY <4>1, <4>2, ParsedDomain
                <5> QED BY <3>1, <4>2, <5>1 DEF Follows
            <4>3. CASE k # "level"
                <5>1. settings'[k] = CASE k \in DOMAIN file           -> Accepted(k, file[k])
                                       [] k \in Cleared \ DOMAIN file -> None
                                       [] OTHER                       -> settings[k]
                    BY <4>1, <4>3 DEF Parsed
                <5>2. CASE k \in DOMAIN file
                    BY <3>1, <5>1, <5>2 DEF Follows, Accepted
                <5>3. CASE k \in Cleared \ DOMAIN file
                    BY <3>1, <5>1, <5>3 DEF Follows
                <5>4. CASE k \in Kept \ DOMAIN file
                    BY <3>1, <5>4 DEF Follows
                <5> QED BY <5>2, <5>3, <5>4 DEF Settings
            <4> QED BY <4>2, <4>3
        <3> QED BY <2>1, <3>1, <3>2 DEF CurrentInv
    <2>2. CASE pc' = "ended" /\ UNCHANGED configVars /\ file = Unreadable
        BY <2>2 DEF CurrentInv, FileRead, configVars
    <2> QED BY <1>1, <2>1, <2>2 DEF Load
<1>2. CASE SetUp
    BY <1>2 DEF SetUp, startWatching, CurrentInv, FileRead, Follows
<1>3. CASE Reload
    <2>1. pc' = pc /\ opts' = opts
        BY <1>3 DEF Reload, processVars
    <2>2. CASE Dispatching /\ onConfigFileChanged
        <3>1. pc # "load"
            BY <2>2 DEF Dispatching
        <3>2. CASE file = Unreadable
            BY <2>1, <2>2, <3>1, <3>2 DEF onConfigFileChanged, CurrentInv, FileRead
        <3>3. CASE file # Unreadable
            BY <2>1, <2>2, <3>1, <3>3 DEF onConfigFileChanged, CurrentInv, FileRead
        <3> QED BY <3>2, <3>3
    <2>3. CASE LoadAgain
        <3>1. pc # "load"
            BY <2>3 DEF LoadAgain, CurrentInv
        <3>2. CASE file = Unreadable
            BY <2>1, <2>3, <3>1, <3>2 DEF LoadAgain, CurrentInv, FileRead
        <3>3. CASE file # Unreadable
            <4>1. file' = file /\ settings' = Parsed(settings, file)
                BY <2>3, <3>3 DEF LoadAgain
            <4>2. \A k \in Settings : Follows(k, opts.level)'
                BY <4>1, <2>1, ParsedFollows
            <4> QED BY <2>1, <3>1, <4>2 DEF CurrentInv
        <3> QED BY <3>2, <3>3
    <2> QED BY <1>3, <2>2, <2>3 DEF Reload
<1>4. ASSUME NEW c \in Contents \cup {Unreadable}, Edit(c) PROVE CurrentInv'
    <2>1. notified' \/ unseen'
        BY <1>4 DEF Edit, Write
    <2> QED BY <1>4, <2>1 DEF Edit, Write, processVars, CurrentInv, FileRead
<1>5. ASSUME UNCHANGED configVars, opts' = opts, pc' # "load", pc # "load"
      PROVE  CurrentInv'
    BY <1>5 DEF configVars, CurrentInv, FileRead, Follows
<1>6. CASE UNCHANGED vars
    BY <1>6 DEF vars, processVars, configVars, CurrentInv, FileRead, Follows
<1>7. ASSUME \/ EnterExec \/ WarmUpFires \/ SendTimerFires
             \/ (\E t \in Timers : QuitFires(t)) \/ (\E m \in DOMAIN pending : Settle(m))
             \/ LeaveExec \/ EndFlush \/ Tick \/ Signal
      PROVE  UNCHANGED configVars /\ opts' = opts /\ pc' # "load" /\ pc # "load"
    BY <1>7 DEF EnterExec, WarmUpFires, SendTimerFires, QuitFires, Settle, LeaveExec,
                EndFlush, Tick, Signal, Due, Dispatching, Waiting
<1> QED BY <1>1, <1>2, <1>3, <1>4, <1>5, <1>6, <1>7 DEF Next

(***************************************************************************)
(* THEOREM: the settings of a process at rest are those of the file,       *)
(* whatever settings there are and however often the file changes.         *)
(***************************************************************************)
THEOREM SettingsFollowFile == Spec => []SettingsCurrent
<1>1. CurrentInv => SettingsCurrent
    BY DEF CurrentInv, SettingsCurrent, FileRead
<1> QED BY CurrentInit, CurrentNext, <1>1, PTL DEF Spec

-----------------------------------------------------------------------------
(***************************************************************************)
(* The sender's chain of timers.  One of three timers keeps a sender going *)
(* while its loop runs; what is published and what remains add up; and it  *)
(* is told to quit for one of three reasons only.                          *)
(***************************************************************************)
Chain == {"warm_up", "send", "quit"}

Early == {"load", "set_up", "asleep"}

\* Nothing is left to publish, or something else ends the process.
Done == remaining = 0 \/ shutdownRequested \/ ~NotTimedOut

ChainTimers ==
    /\ pc \in Early => DOMAIN timers \subseteq {"auto_exit"} /\ ~quit
    /\ \A t, u \in Chain \cap DOMAIN timers : t = u
    /\ \A t \in Chain \cap DOMAIN timers : timers[t] >= -MaxLag
    /\ Sender /\ pc = "exec" /\ ~quit => Chain \cap DOMAIN timers # {}

ChainCounts ==
    /\ Sender => pc \notin {"flush", "shutdown"}
    /\ pc \in Early \/ ~Sender => published = 0
    /\ Sender /\ (pc = "exec" \/ (pc = "ended" /\ exitCode = 0)) =>
            published + remaining = opts.count
    /\ exitCode = 1 => pc = "ended" /\ published = 0
    /\ "auto_exit" \in DOMAIN timers => opts.run_for > 0

ChainEnds ==
    Sender => /\ "quit" \in DOMAIN timers \/ quit => Done
              /\ pc = "ended" /\ exitCode = 0 => Done

ChainInv == ChainTimers /\ ChainCounts /\ ChainEnds

LEMMA ChainInit == Init => ChainInv
<1> SUFFICES ASSUME Init PROVE ChainInv
    OBVIOUS
<1>1. DOMAIN timers = {} /\ pc = "load" /\ ~quit /\ published = 0 /\ exitCode = 0
    BY DEF Init, Unarmed
<1> QED BY <1>1 DEF ChainInv, ChainTimers, ChainCounts, ChainEnds, Early

(***************************************************************************)
(* What each handler does to the timers.                                   *)
(***************************************************************************)
SameTimers(T) == \A t \in T : t \in DOMAIN timers' /\ timers'[t] = timers[t]

LEMMA SetUpTimers ==
    ASSUME TypeInv, SetUp
    PROVE  IF opts.run_for > 0
             THEN /\ DOMAIN timers' = DOMAIN timers \cup {"auto_exit"}
                  /\ timers'["auto_exit"] = opts.run_for
             ELSE timers' = timers
BY DEF TypeInv, SetUp, AutoExit, Armed

LEMMA EnterExecTimers ==
    ASSUME TypeInv, EnterExec
    PROVE  IF Sender
             THEN /\ DOMAIN timers' = DOMAIN timers \cup {"warm_up"}
                  /\ timers'["warm_up"] = WarmUp
                  /\ SameTimers(DOMAIN timers \ {"warm_up"})
             ELSE timers' = timers
BY DEF TypeInv, EnterExec, Armed, SameTimers

LEMMA WarmUpTimers ==
    ASSUME TypeInv, WarmUpFires
    PROVE  /\ "warm_up" \in DOMAIN timers
           /\ timers["warm_up"] <= 0
           /\ DOMAIN timers' = (DOMAIN timers \ {"warm_up"}) \cup {"send"}
           /\ timers'["send"] = opts.interval
           /\ SameTimers(DOMAIN timers \ {"warm_up", "send"})
BY DEF TypeInv, WarmUpFires, Due, SameTimers

LEMMA LastSendTimers ==
    ASSUME TypeInv, timers' = QuitSoon
    PROVE  /\ DOMAIN timers' = (DOMAIN timers \ {"send"}) \cup {"quit"}
           /\ timers'["quit"] = QuitDelay
           /\ SameTimers(DOMAIN timers \ {"quit", "send"})
BY DEF TypeInv, QuitSoon, SameTimers

LEMMA NextSendTimers ==
    ASSUME TypeInv, NEW left, timers' = Armed("send", left), "send" \in DOMAIN timers
    PROVE  /\ DOMAIN timers' = DOMAIN timers
           /\ timers'["send"] = left
           /\ SameTimers(DOMAIN timers \ {"send"})
BY DEF TypeInv, Armed, SameTimers

LEMMA QuitTimers ==
    ASSUME TypeInv, NEW t, QuitFires(t)
    PROVE  /\ t \in DOMAIN timers /\ timers[t] <= 0
           /\ t \in {"quit", "auto_exit"}
           /\ DOMAIN timers' = DOMAIN timers \ {t}
           /\ SameTimers(DOMAIN timers \ {t})
BY DEF TypeInv, QuitFires, Due, Without, SameTimers

LEMMA TickTimers ==
    ASSUME TypeInv, Tick
    PROVE  /\ DOMAIN timers' = DOMAIN timers
           /\ \A t \in DOMAIN timers : timers'[t] = timers[t] - 1
           /\ pc = "exec" => \A t \in DOMAIN timers : timers[t] > -MaxLag
           /\ pc \in {"asleep", "exec", "flush", "shutdown"}
           /\ pc = "asleep" => delay > 0
           /\ pc = "exec" => ~quit
           /\ pc \in {"flush", "shutdown"} => Flushing
<1>1. DOMAIN timers' = DOMAIN timers /\ \A t \in DOMAIN timers : timers'[t] = timers[t] - 1
    BY DEF Tick
<1>2. Waiting
    BY DEF Tick
<1>3. pc = "exec" => ~Overdue /\ ~quit
    BY <1>2 DEF Waiting
<1>4. \A t \in DOMAIN timers : timers[t] \in Int
    BY DEF TypeInv
<1>5. ~Overdue => \A t \in DOMAIN timers : timers[t] > -MaxLag
    BY <1>4, DurationsAssumption DEF Overdue
<1>6. /\ pc \in {"asleep", "exec", "flush", "shutdown"}
      /\ pc = "asleep" => delay > 0
      /\ pc \in {"flush", "shutdown"} => Flushing
    BY <1>2 DEF Waiting
<1> QED BY <1>1, <1>3, <1>5, <1>6

LEMMA ChainNext == TypeInv /\ ChainInv /\ [Next]_vars => ChainInv'
<1> SUFFICES ASSUME TypeInv, ChainInv, [Next]_vars PROVE ChainInv'
    OBVIOUS
<1>o. /\ opts.count \in Nat \ {0} /\ opts.interval \in Nat \ {0}
      /\ opts.delay \in Nat /\ opts.run_for \in Nat
    BY OptionTypes DEF TypeInv
<1>t. /\ remaining \in 0 .. opts.count /\ published \in Nat
      /\ pc \in Places /\ exitCode \in {0, 1}
      /\ DOMAIN timers \subseteq Timers
      /\ ~Sender => DOMAIN timers \subseteq {"auto_exit"}
      /\ \A t \in DOMAIN timers : timers[t] \in Int
    BY DEF TypeInv, TypeOK
<1>d. MaxLag \in Nat /\ WarmUp \in Nat /\ QuitDelay \in Nat
    BY DurationsAssumption
<1> USE DEF ChainInv
<1>1. CASE Load
    BY <1>1 DEF Load, ChainTimers, ChainCounts, ChainEnds, Early, Sender
<1>2. CASE SetUp
    <2>1. /\ pc = "set_up" /\ pc' = "asleep" /\ DOMAIN timers' \subseteq {"auto_exit"}
          /\ "auto_exit" \in DOMAIN timers' => opts.run_for > 0
          /\ UNCHANGED <<opts, published, quit, exitCode>>
        BY <1>2, SetUpTimers DEF SetUp, ChainTimers, ChainCounts, Early
    <2>2. exitCode # 1 /\ published = 0 /\ ~quit
        BY <2>1 DEF ChainTimers, ChainCounts, Early
    <2>3. ChainTimers'
        BY <2>1, <2>2 DEF ChainTimers, Chain
    <2>4. ChainCounts' /\ ChainEnds'
        BY <2>1, <2>2 DEF ChainCounts, ChainEnds
    <2> QED BY <2>3, <2>4
<1>3. CASE EnterExec
    <2>1. /\ pc = "asleep" /\ pc' = "exec" /\ ~quit /\ ~quit' /\ DOMAIN timers \subseteq {"auto_exit"}
          /\ published = 0 /\ UNCHANGED <<opts, published, exitCode, shutdownRequested>>
        BY <1>3 DEF EnterExec, ChainTimers, ChainCounts, Early
    <2>2. exitCode = 0
        BY <1>t, <2>1 DEF ChainCounts
    <2>3. CASE Sender
        <3>1. /\ DOMAIN timers' \subseteq {"auto_exit", "warm_up"} /\ "warm_up" \in DOMAIN timers'
              /\ timers'["warm_up"] = WarmUp
              /\ "auto_exit" \in DOMAIN timers' => "auto_exit" \in DOMAIN timers
            BY <1>3, <2>1, <2>3, EnterExecTimers
        <3>2. remaining' = opts.count /\ Sender'
            BY <1>3, <2>3 DEF EnterExec, Sender
        <3>3. ChainTimers'
            <4>1. Chain \cap DOMAIN timers' = {"warm_up"} /\ WarmUp >= -MaxLag
                BY <1>d, <3>1 DEF Chain
            <4> QED BY <2>1, <3>1, <4>1 DEF ChainTimers, Early
        <3>4. ChainCounts'
            <4>1. published' + remaining' = opts'.count
                BY <1>o, <2>1, <3>2
            <4>2. "auto_exit" \in DOMAIN timers' => opts'.run_for > 0
                BY <2>1, <3>1 DEF ChainCounts
            <4> QED BY <2>1, <2>2, <4>1, <4>2 DEF ChainCounts, Early
        <3>5. ChainEnds'
            <4>1. "quit" \notin DOMAIN timers'
                BY <3>1
            <4> QED BY <2>1, <4>1 DEF ChainEnds
        <3> QED BY <3>3, <3>4, <3>5
    <2>4. CASE ~Sender
        <3>1. timers' = timers /\ ~Sender'
            BY <1>3, <2>4, EnterExecTimers DEF EnterExec, Sender
        <3> QED BY <2>1, <2>2, <3>1 DEF ChainTimers, ChainCounts, ChainEnds, Early, Chain
    <2> QED BY <2>3, <2>4
<1>4. CASE WarmUpFires
    <2>1. /\ UNCHANGED <<opts, pc, quit, published, remaining, exitCode, shutdownRequested>>
          /\ pc \notin Early
        BY <1>4 DEF WarmUpFires, Due, Dispatching, Early
    <2>2. /\ "warm_up" \in DOMAIN timers
          /\ DOMAIN timers' = (DOMAIN timers \ {"warm_up"}) \cup {"send"}
          /\ timers'["send"] = opts.interval
        BY <1>4, WarmUpTimers
    <2>3. Chain \cap DOMAIN timers = {"warm_up"} /\ Chain \cap DOMAIN timers' = {"send"}
        BY <2>2 DEF ChainTimers, Chain
    <2>4. ChainTimers'
        BY <1>d, <1>o, <2>1, <2>2, <2>3 DEF ChainTimers, Sender
    <2>5. "auto_exit" \in DOMAIN timers' <=> "auto_exit" \in DOMAIN timers
        BY <2>2
    <2>6. "quit" \notin DOMAIN timers'
        BY <2>3 DEF Chain
    <2> QED BY <2>1, <2>4, <2>5, <2>6 DEF ChainCounts, ChainEnds, Sender, Done, NotTimedOut
<1>5. CASE SendTimerFires
    <2>1. /\ UNCHANGED <<opts, pc, exitCode>>
          /\ pc \notin Early /\ Due("send")
          /\ \/ UNCHANGED <<quit, shutdownRequested>>
             \/ quit' = (quit \/ pc = "exec") /\ shutdownRequested'
        BY <1>5 DEF SendTimerFires, SignalArrives, Due, Dispatching, Early
    <2>2. "send" \in DOMAIN timers /\ timers["send"] <= 0 /\ Sender
        BY <2>1, <1>t DEF Due
    <2>3. Chain \cap DOMAIN timers = {"send"} /\ timers["send"] >= -MaxLag
        BY <2>2 DEF ChainTimers, Chain
    <2>x. pc = "exec" \/ pc = "ended"
        BY <1>t, <2>1, <2>2 DEF ChainCounts, Places, Early
    <2>y. pc = "exec"
        BY <2>1, <2>x DEF Due, Dispatching
    <2>4. CASE Finished /\ timers' = QuitSoon /\ UNCHANGED <<published, remaining, pending>>
        <3>1. /\ DOMAIN timers' = (DOMAIN timers \ {"send"}) \cup {"quit"}
              /\ timers'["quit"] = QuitDelay
            BY <2>4, LastSendTimers
        <3>2. Chain \cap DOMAIN timers' = {"quit"}
            BY <2>3, <3>1 DEF Chain
        <3>3. ChainTimers'
            BY <1>d, <2>1, <2>y, <3>1, <3>2 DEF ChainTimers, Early
        <3>4. ("auto_exit" \in DOMAIN timers' <=> "auto_exit" \in DOMAIN timers)
            BY <3>1
        <3>5. Done'
            BY <1>t, <2>1, <2>4 DEF Finished, Done
        <3> QED BY <2>1, <2>y, <2>4, <3>3, <3>4, <3>5 DEF ChainCounts, ChainEnds, Sender
    <2>5. CASE ~Finished /\ Publish /\ (\E left \in {opts.interval, timers["send"] + opts.interval} :
                                           timers' = Armed("send", left))
        <3>1. PICK left \in {opts.interval, timers["send"] + opts.interval} : timers' = Armed("send", left)
            BY <2>5
        <3>2. DOMAIN timers' = DOMAIN timers /\ timers'["send"] = left /\ left >= -MaxLag
            BY <1>d, <1>o, <1>t, <2>2, <2>3, <3>1, NextSendTimers
        <3>3. ChainTimers'
            BY <2>1, <2>3, <3>2 DEF ChainTimers, Early, Sender
        <3>4. published' = published + 1 /\ remaining' = remaining - 1
            BY <2>5 DEF Publish
        <3>5. Done => Done'
            BY <1>t, <2>1, <2>5, <3>2 DEF Done, NotTimedOut, Finished
        <3>6. ChainEnds'
            BY <2>1, <2>y, <3>2, <3>5 DEF ChainEnds, Done, Sender
        <3>7. ChainCounts'
            BY <1>t, <1>o, <2>1, <2>2, <2>y, <3>2, <3>4 DEF ChainCounts, Sender, Early
        <3> QED BY <3>3, <3>6, <3>7
    <2> QED BY <1>5, <2>4, <2>5 DEF SendTimerFires
<1>6. ASSUME NEW t \in Timers, QuitFires(t) PROVE ChainInv'
    <2>1. /\ UNCHANGED <<opts, pc, published, remaining, exitCode, shutdownRequested>>
          /\ pc \notin Early /\ quit' = (pc = "exec") /\ t \in {"quit", "auto_exit"}
        BY <1>6 DEF QuitFires, Due, Dispatching, Early
    <2>2. /\ t \in DOMAIN timers
          /\ DOMAIN timers' = DOMAIN timers \ {t}
          /\ \A u \in DOMAIN timers \ {t} : timers'[u] = timers[u]
        BY <1>6, QuitTimers DEF SameTimers
    <2>3. ChainTimers'
        BY <2>1, <2>2 DEF ChainTimers, Sender
    <2>4. ChainCounts'
        BY <2>1, <2>2 DEF ChainCounts, Sender
    <2>5. Sender => Done'
        <3>1. CASE t = "quit"
            BY <2>1, <2>2, <3>1 DEF ChainEnds, Done, NotTimedOut
        <3>2. CASE t = "auto_exit"
            BY <2>1, <2>2, <3>2 DEF ChainCounts, Done, NotTimedOut
        <3> QED BY <2>1, <3>1, <3>2
    <2> QED BY <2>1, <2>3, <2>4, <2>5 DEF ChainEnds, Sender
<1>7. ASSUME UNCHANGED <<opts, pc, timers, quit, published, remaining, exitCode>>,
             shutdownRequested => shutdownRequested'
      PROVE  ChainInv'
    BY <1>7 DEF ChainTimers, ChainCounts, ChainEnds, Sender, Done, NotTimedOut
<1>8. CASE LeaveExec
    <2>1. /\ UNCHANGED <<opts, quit, timers, published, remaining, exitCode, shutdownRequested>>
          /\ pc = "exec" /\ quit /\ pc' = IF Sender THEN "ended" ELSE "flush"
        BY <1>8 DEF LeaveExec
    <2> QED BY <2>1 DEF ChainTimers, ChainCounts, ChainEnds, Sender, Done, NotTimedOut, Early
<1>9. CASE EndFlush
    <2>1. /\ UNCHANGED <<opts, quit, timers, published, remaining, exitCode, shutdownRequested>>
          /\ pc \in {"flush", "shutdown"} /\ pc' \in {"shutdown", "ended"}
        BY <1>9 DEF EndFlush
    <2>2. ~Sender
        BY <2>1 DEF ChainCounts
    <2> QED BY <2>1, <2>2 DEF ChainTimers, ChainCounts, ChainEnds, Sender, Early
<1>10. CASE Tick
    <2>1. /\ UNCHANGED <<opts, pc, quit, published, remaining, exitCode, shutdownRequested>>
          /\ DOMAIN timers' = DOMAIN timers
          /\ \A t \in DOMAIN timers : timers'[t] = timers[t] - 1
          /\ pc = "exec" => \A t \in DOMAIN timers : timers[t] > -MaxLag
          /\ pc \in {"asleep", "exec", "flush", "shutdown"}
        BY <1>10, TickTimers DEF Tick
    <2>2. \A t \in Chain \cap DOMAIN timers : pc = "exec"
        BY <1>t, <2>1 DEF ChainTimers, ChainCounts, Early, Chain
    <2>3. \A t \in Chain \cap DOMAIN timers' : timers'[t] >= -MaxLag
        BY <1>d, <1>t, <2>1, <2>2
    <2>4. ChainTimers'
        BY <2>1, <2>3 DEF ChainTimers, Sender
    <2> QED BY <2>1, <2>4 DEF ChainCounts, ChainEnds, Sender, Done, NotTimedOut
<1>11. CASE Signal
    <2>1. /\ UNCHANGED <<opts, pc, timers, published, remaining, exitCode>>
          /\ shutdownRequested' /\ quit' = (quit \/ pc = "exec")
        BY <1>11 DEF Signal, SignalArrives
    <2>2. quit' <=> (quit \/ pc = "exec")
        BY <2>1
    <2>3. pc \in Early => ~quit'
        BY <2>2 DEF ChainTimers, Early
    <2>4. ChainTimers'
        BY <2>1, <2>2, <2>3 DEF ChainTimers, Sender
    <2> QED BY <2>1, <2>4 DEF ChainCounts, ChainEnds, Sender, Done
<1>12. ASSUME NEW m \in DOMAIN pending, Settle(m) PROVE ChainInv'
    BY <1>7, <1>12 DEF Settle
<1>13. CASE Reload
    BY <1>7, <1>13 DEF Reload, processVars
<1>14. CASE \E c \in Contents \cup {Unreadable} : Edit(c)
    BY <1>7, <1>14 DEF Edit, processVars
<1>15. CASE UNCHANGED vars
    BY <1>7, <1>15 DEF vars, processVars
<1> QED BY <1>1, <1>2, <1>3, <1>4, <1>5, <1>6, <1>8, <1>9, <1>10, <1>11, <1>12, <1>13,
           <1>14, <1>15 DEF Next

LEMMA ChainAlways == Spec => [](TypeInv /\ ChainInv)
BY TypeInit, TypeNext, ChainInit, ChainNext, PTL DEF Spec

LEMMA ChainIsFull == TypeInv /\ ChainInv => PublishesInFull
<1> SUFFICES ASSUME TypeInv, ChainInv, Sender
             PROVE  /\ published <= opts.count
                    /\ EndedByItself => published = opts.count
    BY DEF PublishesInFull
<1>1. /\ remaining \in 0 .. opts.count /\ published \in Nat /\ opts.count \in Nat
      /\ pc \in Places /\ exitCode \in {0, 1}
    BY OptionTypes DEF TypeInv, TypeOK
<1>2. CASE pc \in Early \/ exitCode = 1
    BY <1>1, <1>2 DEF ChainInv, ChainCounts, EndedByItself, Early
<1>3. CASE pc \notin Early /\ exitCode = 0
    <2>1. pc \in {"exec", "ended"} /\ published + remaining = opts.count
        BY <1>1, <1>3 DEF ChainInv, ChainCounts, Places, Early
    <2>2. EndedByItself => remaining = 0
        BY DEF ChainInv, ChainEnds, EndedByItself, Done
    <2> QED BY <1>1, <2>1, <2>2
<1> QED BY <1>1, <1>2, <1>3

(***************************************************************************)
(* THEOREM: a sender that nobody stops publishes as many messages as it    *)
(* was asked to, and no sender ever more.                                  *)
(***************************************************************************)
THEOREM AllPublished == Spec => []PublishesInFull
BY ChainAlways, ChainIsFull, PTL

-----------------------------------------------------------------------------
(***************************************************************************)
(* How long a process takes.  Reach(k) is the latest time of the sender's  *)
(* k-th timeout; --run-for-sec is counted by its own timer, which a start  *)
(* delay makes late but which no wait in the event loop does.              *)
(***************************************************************************)
Reach(k) == opts.delay + WarmUp + MaxLag + k * (opts.interval + MaxLag)

SenderTimes ==
    Sender =>
        /\ pc \in {"load", "set_up"} => uptime = 0
        /\ pc = "asleep" => uptime + delay <= opts.delay
        /\ pc = "exec" => uptime <= SenderDeadline
        /\ "warm_up" \in DOMAIN timers => uptime + timers["warm_up"] <= opts.delay + WarmUp
        /\ "send" \in DOMAIN timers =>
                uptime + timers["send"] <= Reach(published) + opts.interval
        /\ "quit" \in DOMAIN timers =>
                uptime + timers["quit"] <= Reach(opts.count + 1) + QuitDelay

AutoTimes ==
    /\ pc \in {"load", "set_up"} => uptime = 0
    /\ ~Sender => delay = 0
    /\ pc = "asleep" => uptime <= opts.delay - delay
    /\ opts.run_for > 0 /\ pc \notin {"load", "set_up", "ended"} =>
        /\ uptime <= AutoDeadline
        /\ "auto_exit" \in DOMAIN timers =>
            /\ uptime + timers["auto_exit"] <= opts.run_for
            /\ timers["auto_exit"] >= -MaxLag \/ uptime <= opts.delay
        /\ "auto_exit" \notin DOMAIN timers /\ pc \in {"asleep", "exec"} => quit

LEMMA Times == \A k \in Nat, x \in Nat : (k + 1) * x = k * x + x /\ k * x \in Nat
OBVIOUS

LEMMA TimesMonotone == \A k, n, x \in Nat : k <= n => k * x <= n * x
OBVIOUS

LEMMA ReachSteps ==
    ASSUME TypeInv
    PROVE  /\ \A k \in Nat : Reach(k) \in Nat
           /\ \A k \in Nat : Reach(k + 1) = Reach(k) + opts.interval + MaxLag
           /\ \A k, n \in Nat : k <= n => Reach(k) <= Reach(n)
           /\ Reach(0) = opts.delay + WarmUp + MaxLag
           /\ SenderDeadline = Reach(opts.count + 1) + QuitDelay + MaxLag
<1>1. /\ opts.delay \in Nat /\ opts.interval \in Nat /\ opts.count \in Nat
      /\ WarmUp \in Nat /\ MaxLag \in Nat /\ QuitDelay \in Nat
    BY OptionTypes, DurationsAssumption DEF TypeInv
<1> DEFINE x == opts.interval + MaxLag
<1>2. x \in Nat
    BY <1>1
<1>3. \A k \in Nat : Reach(k) = opts.delay + WarmUp + MaxLag + k * x
    BY DEF Reach
<1>4. SenderDeadline = opts.delay + WarmUp + MaxLag + (opts.count + 1) * x + QuitDelay + MaxLag
    BY DEF SenderDeadline
<1>5. x = opts.interval + MaxLag
    OBVIOUS
<1> HIDE DEF x
<1>6. \A k \in Nat : Reach(k) \in Nat
    <2> TAKE k \in Nat
    <2>1. k * x \in Nat
        BY <1>2, Times
    <2>2. Reach(k) = opts.delay + WarmUp + MaxLag + k * x
        BY <1>3
    <2> DEFINE y == k * x
    <2> HIDE DEF y
    <2>3. y \in Nat /\ Reach(k) = opts.delay + WarmUp + MaxLag + y
        BY <2>1, <2>2 DEF y
    <2> QED BY <1>1, <2>3
<1>7. ASSUME NEW k \in Nat PROVE Reach(k + 1) = Reach(k) + opts.interval + MaxLag
    <2>1. (k + 1) * x = k * x + x /\ k * x \in Nat
        BY <1>2, Times
    <2>2. Reach(k + 1) = opts.delay + WarmUp + MaxLag + (k + 1) * x
        BY <1>3
    <2>3. Reach(k) = opts.delay + WarmUp + MaxLag + k * x
        BY <1>3
    <2> DEFINE y == k * x
    <2>4. /\ y \in Nat /\ Reach(k) = opts.delay + WarmUp + MaxLag + y
          /\ Reach(k + 1) = opts.delay + WarmUp + MaxLag + (y + x)
        BY <2>1, <2>2, <2>3
    <2> HIDE DEF y
    <2> QED BY <1>1, <1>2, <1>5, <2>4
<1>8. ASSUME NEW k \in Nat, NEW n \in Nat, k <= n PROVE Reach(k) <= Reach(n)
    <2>1. k * x <= n * x /\ k * x \in Nat /\ n * x \in Nat
        BY <1>2, <1>8, Times, TimesMonotone
    <2> QED BY <1>1, <1>3, <2>1
<1>9. Reach(0) = opts.delay + WarmUp + MaxLag
    <2>1. 0 * x = 0
        BY <1>2
    <2> QED BY <1>1, <1>3, <2>1
<1>10. SenderDeadline = Reach(opts.count + 1) + QuitDelay + MaxLag
    <2>1. Reach(opts.count + 1) = opts.delay + WarmUp + MaxLag + (opts.count + 1) * x
        BY <1>1, <1>3
    <2> QED BY <1>4, <2>1
<1> QED BY <1>6, <1>7, <1>8, <1>9, <1>10

LEMMA TimesInit == Init => SenderTimes /\ AutoTimes
<1> SUFFICES ASSUME Init PROVE SenderTimes /\ AutoTimes
    OBVIOUS
<1>1. DOMAIN timers = {} /\ pc = "load" /\ uptime = 0 /\ delay = 0
    BY DEF Init, Unarmed
<1> QED BY <1>1 DEF SenderTimes, AutoTimes

LEMMA SenderTimesNext ==
    TypeInv /\ ChainInv /\ SenderTimes /\ [Next]_vars => SenderTimes'
<1> SUFFICES ASSUME TypeInv, ChainInv, SenderTimes, [Next]_vars, Sender' PROVE SenderTimes'
    BY DEF SenderTimes
<1>s. Sender /\ opts' = opts
    BY DEF Next, Load, SetUp, EnterExec, WarmUpFires, SendTimerFires, QuitFires, Settle,
           Reload, LeaveExec, EndFlush, Tick, Signal, Edit, vars, processVars, Sender
<1>o. /\ opts.count \in Nat \ {0} /\ opts.interval \in Nat \ {0}
      /\ opts.delay \in Nat
    BY OptionTypes DEF TypeInv
<1>t. /\ published \in Nat /\ uptime \in Nat /\ delay \in 0 .. opts.delay
      /\ \A t \in DOMAIN timers : timers[t] \in Int
    BY <1>o DEF TypeInv, TypeOK
<1>d. MaxLag \in Nat /\ WarmUp \in Nat /\ QuitDelay \in Nat
    BY DurationsAssumption
<1>e. /\ \A t, u \in Chain \cap DOMAIN timers : t = u
      /\ \A t \in Chain \cap DOMAIN timers : timers[t] >= -MaxLag
    BY DEF ChainInv, ChainTimers
<1>r. /\ \A k \in Nat : Reach(k) \in Nat
      /\ \A k \in Nat : Reach(k + 1) = Reach(k) + opts.interval + MaxLag
      /\ \A k, n \in Nat : k <= n => Reach(k) <= Reach(n)
      /\ Reach(0) = opts.delay + WarmUp + MaxLag
      /\ SenderDeadline = Reach(opts.count + 1) + QuitDelay + MaxLag
    BY ReachSteps
<1>R. /\ \A k : Reach(k)' = Reach(k)
      /\ SenderDeadline' = SenderDeadline
    BY <1>s DEF Reach, SenderDeadline
<1>p. published <= opts.count
    BY <1>s, ChainIsFull DEF PublishesInFull
<1>k. /\ Reach(0) \in Nat /\ Reach(published) \in Nat
      /\ Reach(published + 1) \in Nat /\ Reach(opts.count + 1) \in Nat
      /\ Reach(0) = opts.delay + WarmUp + MaxLag
      /\ Reach(published + 1) = Reach(published) + opts.interval + MaxLag
      /\ SenderDeadline = Reach(opts.count + 1) + QuitDelay + MaxLag
      /\ Reach(0) <= Reach(published) /\ Reach(0) <= Reach(opts.count + 1)
      /\ Reach(published + 1) <= Reach(opts.count + 1)
    BY <1>o, <1>p, <1>r, <1>t
<1> USE DEF SenderTimes
<1>1. CASE Load
    <2>1. pc' \in {"set_up", "ended"} /\ UNCHANGED <<uptime, timers, published>> /\ pc = "load"
        BY <1>1 DEF Load
    <2>2. DOMAIN timers \subseteq {"auto_exit"}
        BY <2>1 DEF ChainInv, ChainTimers, Early
    <2> QED BY <1>s, <2>1, <2>2
<1>2. CASE SetUp
    <2>1. pc' = "asleep" /\ delay' = opts.delay /\ uptime' = uptime /\ pc = "set_up"
        BY <1>2, <1>s DEF SetUp
    <2>2. DOMAIN timers' \subseteq {"auto_exit"}
        BY <1>2, <2>1, SetUpTimers DEF ChainInv, ChainTimers, Early
    <2> QED BY <1>s, <1>o, <2>1, <2>2
<1>3. CASE EnterExec
    <2>1. pc = "asleep" /\ pc' = "exec" /\ uptime' = uptime
        BY <1>3 DEF EnterExec
    <2>2. DOMAIN timers' \subseteq {"auto_exit", "warm_up"} /\ timers'["warm_up"] = WarmUp
        BY <1>3, <1>s, <2>1, EnterExecTimers DEF ChainInv, ChainTimers, Early
    <2>3. uptime <= opts.delay
        BY <1>s, <1>o, <1>t, <2>1
    <2>4. uptime <= SenderDeadline
        BY <1>o, <1>d, <1>k, <1>t, <2>3
    <2>5. uptime' + timers'["warm_up"] <= opts.delay + WarmUp
        BY <1>o, <1>d, <1>t, <2>1, <2>2, <2>3
    <2>6. "send" \notin DOMAIN timers' /\ "quit" \notin DOMAIN timers'
        BY <2>2
    <2> QED BY <1>s, <1>R, <2>1, <2>4, <2>5, <2>6
<1>4. CASE WarmUpFires
    <2>1. UNCHANGED <<uptime, published, pc>> /\ Due("warm_up") /\ pc \notin Early
        BY <1>4 DEF WarmUpFires, Due, Dispatching, Early
    <2>2. /\ "warm_up" \in DOMAIN timers /\ timers["warm_up"] <= 0
          /\ DOMAIN timers' = (DOMAIN timers \ {"warm_up"}) \cup {"send"}
          /\ timers'["send"] = opts.interval
        BY <1>4, WarmUpTimers
    <2>3. Chain \cap DOMAIN timers' = {"send"} /\ timers["warm_up"] >= -MaxLag
        BY <1>e, <2>2 DEF Chain
    <2>4. uptime <= Reach(0)
        BY <1>s, <1>o, <1>d, <1>t, <1>k, <2>2, <2>3
    <2>6. uptime' + timers'["send"] <= Reach(published) + opts.interval
        BY <1>o, <1>t, <1>k, <2>1, <2>2, <2>4
    <2>7. "warm_up" \notin DOMAIN timers' /\ "quit" \notin DOMAIN timers'
        BY <2>3 DEF Chain
    <2> QED BY <1>s, <1>R, <2>1, <2>6, <2>7 DEF Early
<1>5. CASE SendTimerFires
    <2>1. UNCHANGED <<uptime, pc>> /\ Due("send") /\ pc \notin Early
        BY <1>5 DEF SendTimerFires, Due, Dispatching, Early
    <2>2. "send" \in DOMAIN timers /\ timers["send"] <= 0
        BY <2>1 DEF Due
    <2>3. Chain \cap DOMAIN timers = {"send"} /\ timers["send"] >= -MaxLag
        BY <1>e, <2>2 DEF Chain
    <2>4. uptime <= Reach(published + 1)
        BY <1>s, <1>o, <1>d, <1>t, <1>k, <2>2, <2>3
    <2>5. CASE timers' = QuitSoon
        <3>1. /\ DOMAIN timers' = (DOMAIN timers \ {"send"}) \cup {"quit"}
              /\ timers'["quit"] = QuitDelay
            BY <2>5, LastSendTimers
        <3>2. "warm_up" \notin DOMAIN timers' /\ "send" \notin DOMAIN timers'
            BY <2>3, <3>1 DEF Chain
        <3>4. uptime' + timers'["quit"] <= Reach(opts.count + 1) + QuitDelay
            BY <1>d, <1>k, <1>t, <2>1, <2>4, <3>1
        <3> QED BY <1>s, <1>R, <2>1, <3>2, <3>4 DEF Early
    <2>6. CASE Publish /\ (\E left \in {opts.interval, timers["send"] + opts.interval} :
                              timers' = Armed("send", left))
        <3>1. PICK left \in {opts.interval, timers["send"] + opts.interval} : timers' = Armed("send", left)
            BY <2>6
        <3>2. DOMAIN timers' = DOMAIN timers /\ timers'["send"] = left
            BY <2>2, <3>1, NextSendTimers
        <3>3. left <= opts.interval /\ left \in Int
            BY <1>o, <1>t, <2>2
        <3>4. published' = published + 1
            BY <2>6 DEF Publish
        <3>5. uptime' + timers'["send"] <= Reach(published') + opts.interval
            BY <1>o, <1>t, <1>k, <2>1, <2>4, <3>2, <3>3, <3>4
        <3>6. "warm_up" \notin DOMAIN timers' /\ "quit" \notin DOMAIN timers'
            BY <2>3, <3>2 DEF Chain
        <3> QED BY <1>s, <1>R, <2>1, <3>5, <3>6 DEF Early
    <2> QED BY <1>5, <2>5, <2>6 DEF SendTimerFires
<1>6. ASSUME NEW t \in Timers, QuitFires(t) PROVE SenderTimes'
    <2>1. UNCHANGED <<uptime, pc, published, delay>>
        BY <1>6 DEF QuitFires
    <2>2. /\ DOMAIN timers' = DOMAIN timers \ {t}
          /\ \A u \in DOMAIN timers \ {t} : timers'[u] = timers[u]
        BY <1>6, QuitTimers DEF SameTimers
    <2> QED BY <1>s, <1>R, <2>1, <2>2
<1>7. ASSUME UNCHANGED <<uptime, timers, published, delay>>,
             pc' = pc \/ pc' \in {"flush", "shutdown", "ended"}
      PROVE  SenderTimes'
    BY <1>s, <1>R, <1>7
<1>8. CASE Tick
    <2>1. /\ UNCHANGED <<pc, published>>
          /\ DOMAIN timers' = DOMAIN timers
          /\ \A t \in DOMAIN timers : timers'[t] = timers[t] - 1
          /\ pc = "exec" => \A t \in DOMAIN timers : timers[t] > -MaxLag
          /\ pc \in {"asleep", "exec", "flush", "shutdown"}
          /\ pc = "asleep" => delay > 0
          /\ pc = "exec" => ~quit
        BY <1>8, TickTimers DEF Tick
    <2>2. uptime' \in Nat /\ uptime' <= uptime + 1
        BY <1>8, <1>t DEF Tick, Later
    <2>3. delay > 0 => delay' = delay - 1
        BY <1>8 DEF Tick
    <2>4. \A t \in DOMAIN timers : uptime' + timers'[t] <= uptime + timers[t]
        BY <1>t, <2>1, <2>2
    <2>5. pc # "flush" /\ pc # "shutdown"
        BY <1>s DEF ChainInv, ChainCounts
    <2>6. CASE pc = "asleep"
        <3>1. DOMAIN timers \subseteq {"auto_exit"}
            BY <2>6 DEF ChainInv, ChainTimers, Early
        <3>2. uptime' + delay' <= opts.delay
            BY <1>s, <1>o, <1>t, <2>1, <2>2, <2>3, <2>6
        <3> QED BY <1>s, <2>1, <2>6, <3>1, <3>2
    <2>7. CASE pc = "exec"
        <3>1. PICK t \in Chain : t \in DOMAIN timers
            BY <1>s, <2>1, <2>7 DEF ChainInv, ChainTimers
        <3>2. timers[t] >= 1 - MaxLag /\ timers[t] \in Int
            BY <1>d, <1>t, <2>1, <2>7, <3>1
        <3>4. ASSUME t = "warm_up" PROVE uptime' <= SenderDeadline
            <4>1. uptime + timers[t] <= opts.delay + WarmUp
                BY <1>s, <3>1, <3>4
            <4>2. uptime + 1 <= Reach(0)
                BY <1>d, <1>o, <1>k, <1>t, <3>2, <4>1
            <4> QED BY <1>d, <1>o, <1>k, <1>t, <2>2, <4>2
        <3>5. ASSUME t = "send" PROVE uptime' <= SenderDeadline
            <4>1. uptime + timers[t] <= Reach(published) + opts.interval
                BY <1>s, <3>1, <3>5
            <4>2. uptime + 1 <= Reach(published + 1)
                BY <1>d, <1>o, <1>k, <1>t, <3>2, <4>1
            <4> QED BY <1>d, <1>o, <1>k, <1>t, <2>2, <4>2
        <3>6. ASSUME t = "quit" PROVE uptime' <= SenderDeadline
            <4>1. uptime + timers[t] <= Reach(opts.count + 1) + QuitDelay
                BY <1>s, <3>1, <3>6
            <4> QED BY <1>d, <1>k, <1>t, <2>2, <3>2, <4>1
        <3>7. uptime' <= SenderDeadline
            BY <3>1, <3>4, <3>5, <3>6 DEF Chain
        <3>8. /\ "warm_up" \in DOMAIN timers => uptime' + timers'["warm_up"] <= opts.delay + WarmUp
              /\ "send" \in DOMAIN timers =>
                    uptime' + timers'["send"] <= Reach(published) + opts.interval
              /\ "quit" \in DOMAIN timers =>
                    uptime' + timers'["quit"] <= Reach(opts.count + 1) + QuitDelay
            <4>1. \A v \in DOMAIN timers : timers[v] \in Int /\ timers'[v] \in Int
                BY <1>t, <2>1
            <4>2. /\ \A v \in DOMAIN timers : uptime' + timers'[v] <= uptime + timers[v]
                  /\ uptime \in Int /\ uptime' \in Int
                BY <1>t, <2>2, <2>4
            <4> QED BY <1>s, <1>d, <1>o, <1>k, <4>1, <4>2
        <3> QED BY <1>s, <1>R, <2>1, <2>7, <3>7, <3>8
    <2> QED BY <2>1, <2>5, <2>6, <2>7
<1>9. CASE LeaveExec
    BY <1>7, <1>9, <1>s DEF LeaveExec
<1>10. CASE EndFlush
    BY <1>7, <1>10 DEF EndFlush
<1>11. CASE Signal
    BY <1>7, <1>11 DEF Signal
<1>12. ASSUME NEW m \in DOMAIN pending, Settle(m) PROVE SenderTimes'
    BY <1>7, <1>12 DEF Settle
<1>13. CASE Reload
    BY <1>7, <1>13 DEF Reload, processVars
<1>14. CASE \E c \in Contents \cup {Unreadable} : Edit(c)
    BY <1>7, <1>14 DEF Edit, processVars
<1>15. CASE UNCHANGED vars
    BY <1>7, <1>15 DEF vars, processVars
<1> QED BY <1>1, <1>2, <1>3, <1>4, <1>5, <1>6, <1>8, <1>9, <1>10, <1>11, <1>12, <1>13,
           <1>14, <1>15 DEF Next

LEMMA NothingPending == TypeInv /\ published = 0 => DOMAIN pending = {}
<1> SUFFICES ASSUME TypeInv, published = 0 PROVE DOMAIN pending = {}
    OBVIOUS
<1>1. DOMAIN pending \subseteq 1 .. published
    BY DEF TypeInv, TypeOK
<1>2. 1 .. published = {}
    OBVIOUS
<1> QED BY <1>1, <1>2

LEMMA NothingToFlush == TypeInv /\ ChainInv /\ ~Sender => ~Flushing
<1> SUFFICES ASSUME TypeInv, ChainInv, ~Sender PROVE pending = Nothing
    BY DEF Flushing
<1>1. published = 0
    BY DEF ChainInv, ChainCounts
<1>2. DOMAIN pending = {}
    BY <1>1, NothingPending
<1> QED BY <1>2 DEF TypeInv, Nothing

LEMMA AutoTimesNext ==
    TypeInv /\ ChainInv /\ AutoTimes /\ [Next]_vars => AutoTimes'
<1> SUFFICES ASSUME TypeInv, ChainInv, AutoTimes, [Next]_vars PROVE AutoTimes'
    OBVIOUS
<1>s. opts' = opts /\ (Sender' <=> Sender)
    BY DEF Next, Load, SetUp, EnterExec, WarmUpFires, SendTimerFires, QuitFires, Settle,
           Reload, LeaveExec, EndFlush, Tick, Signal, Edit, vars, processVars, Sender
<1>o. opts.delay \in Nat /\ opts.run_for \in Nat
    BY OptionTypes DEF TypeInv
<1>t. /\ uptime \in Nat /\ delay \in 0 .. opts.delay
      /\ \A t \in DOMAIN timers : timers[t] \in Int
    BY <1>o DEF TypeInv, TypeOK
<1>d. MaxLag \in Nat /\ WarmUp \in Nat
    BY DurationsAssumption
<1>a. /\ AutoDeadline \in Nat /\ AutoDeadline' = AutoDeadline
      /\ opts.run_for + MaxLag <= AutoDeadline
      /\ Sender => opts.delay <= AutoDeadline
    <2>1. AutoDeadline' = AutoDeadline
        BY <1>s DEF AutoDeadline
    <2>2. CASE Sender /\ opts.delay > opts.run_for + MaxLag
        BY <1>o, <1>d, <2>1, <2>2 DEF AutoDeadline
    <2>3. CASE ~(Sender /\ opts.delay > opts.run_for + MaxLag)
        BY <1>o, <1>d, <2>1, <2>3 DEF AutoDeadline
    <2> QED BY <2>2, <2>3
<1> USE DEF AutoTimes
<1>1. CASE Load
    BY <1>1, <1>s DEF Load
<1>2. CASE SetUp
    <2>1. /\ pc' = "asleep" /\ pc = "set_up" /\ UNCHANGED <<uptime, quit>>
          /\ Sender => delay' = opts.delay
          /\ ~Sender => delay' = 0
        BY <1>2 DEF SetUp
    <2>2. uptime' = 0
        BY <2>1
    <2>3. opts.run_for > 0 => "auto_exit" \in DOMAIN timers' /\ timers'["auto_exit"] = opts.run_for
        BY <1>2, SetUpTimers
    <2>4. uptime' <= opts.delay - delay'
        BY <1>o, <2>1, <2>2
    <2> QED BY <1>a, <1>d, <1>o, <1>s, <2>1, <2>2, <2>3, <2>4
<1>3. CASE EnterExec
    <2>1. pc = "asleep" /\ pc' = "exec" /\ UNCHANGED <<uptime, quit, delay>>
        BY <1>3 DEF EnterExec
    <2>2. /\ "auto_exit" \in DOMAIN timers' <=> "auto_exit" \in DOMAIN timers
          /\ "auto_exit" \in DOMAIN timers => timers'["auto_exit"] = timers["auto_exit"]
        BY <1>3, EnterExecTimers DEF SameTimers
    <2> QED BY <1>a, <1>s, <2>1, <2>2
<1>4. CASE WarmUpFires
    <2>1. UNCHANGED <<pc, uptime, quit, delay>>
        BY <1>4 DEF WarmUpFires
    <2>2. /\ "auto_exit" \in DOMAIN timers' <=> "auto_exit" \in DOMAIN timers
          /\ "auto_exit" \in DOMAIN timers => timers'["auto_exit"] = timers["auto_exit"]
        BY <1>4, WarmUpTimers DEF SameTimers
    <2> QED BY <1>a, <1>s, <2>1, <2>2
<1>5. CASE SendTimerFires
    <2>s. quit' = quit \/ quit' = (quit \/ pc = "exec")
        BY <1>5, SendSignal
    <2>1. UNCHANGED <<pc, uptime, delay>> /\ (quit => quit') /\ "send" \in DOMAIN timers
        <3>1. quit => quit'
            BY <2>s
        <3> QED BY <1>5, <3>1 DEF SendTimerFires, Due
    <2>2. CASE timers' = QuitSoon
        <3>1. /\ "auto_exit" \in DOMAIN timers' <=> "auto_exit" \in DOMAIN timers
              /\ "auto_exit" \in DOMAIN timers => timers'["auto_exit"] = timers["auto_exit"]
            BY <2>2, LastSendTimers DEF SameTimers
        <3> QED BY <1>a, <1>s, <2>1, <3>1
    <2>3. CASE \E left \in {opts.interval, timers["send"] + opts.interval} : timers' = Armed("send", left)
        <3>1. /\ "auto_exit" \in DOMAIN timers' <=> "auto_exit" \in DOMAIN timers
              /\ "auto_exit" \in DOMAIN timers => timers'["auto_exit"] = timers["auto_exit"]
            BY <2>1, <2>3, NextSendTimers DEF SameTimers
        <3> QED BY <1>a, <1>s, <2>1, <3>1
    <2> QED BY <1>5, <2>2, <2>3 DEF SendTimerFires
<1>6. ASSUME NEW t \in Timers, QuitFires(t) PROVE AutoTimes'
    <2>1. UNCHANGED <<pc, uptime, delay>> /\ quit' = (pc = "exec")
          /\ pc \notin Early
        BY <1>6 DEF QuitFires, Due, Dispatching, Early
    <2>2. pc = "exec" => quit'
        BY <2>1
    <2>3. /\ DOMAIN timers' = DOMAIN timers \ {t}
          /\ \A u \in DOMAIN timers \ {t} : timers'[u] = timers[u]
        BY <1>6, QuitTimers DEF SameTimers
    <2>4. pc # "asleep"
        BY <2>1 DEF Early
    <2> QED BY <1>a, <1>s, <2>1, <2>2, <2>3, <2>4
<1>7. ASSUME UNCHANGED <<pc, timers, uptime, delay>>, quit => quit'
      PROVE  AutoTimes'
    BY <1>a, <1>s, <1>7
<1>8. CASE LeaveExec
    BY <1>a, <1>s, <1>8 DEF LeaveExec
<1>9. CASE EndFlush
    BY <1>a, <1>s, <1>9 DEF EndFlush
<1>10. CASE Tick
    <2>1. /\ UNCHANGED <<pc, quit>>
          /\ DOMAIN timers' = DOMAIN timers
          /\ \A t \in DOMAIN timers : timers'[t] = timers[t] - 1
          /\ pc = "exec" => \A t \in DOMAIN timers : timers[t] > -MaxLag
          /\ pc \in {"asleep", "exec", "flush", "shutdown"}
          /\ pc = "asleep" => delay > 0
          /\ pc = "exec" => ~quit
          /\ pc \in {"flush", "shutdown"} => Flushing
        BY <1>10, TickTimers DEF Tick
    <2>2. uptime' \in Nat /\ uptime' <= uptime + 1
        BY <1>10, <1>t DEF Tick, Later
    <2>3. /\ delay > 0 => delay' = delay - 1
          /\ delay = 0 => delay' = 0
        BY <1>10 DEF Tick
    <2>4. pc \in {"asleep", "exec"}
        <3>1. Sender => pc \notin {"flush", "shutdown"}
            BY DEF ChainInv, ChainCounts
        <3> QED BY <2>1, <3>1, NothingToFlush
    <2>5. ~Sender => delay' = 0
        BY <2>3
    <2>6. CASE pc = "asleep"
        <3>1. Sender /\ delay > 0
            BY <2>1, <2>6
        <3>2. uptime' <= opts.delay - delay' /\ uptime' <= opts.delay
            BY <1>o, <1>t, <2>2, <2>3, <2>6, <3>1
        <3>3. uptime' <= AutoDeadline
            BY <1>a, <1>o, <2>2, <3>1, <3>2
        <3>4. opts.run_for > 0 /\ "auto_exit" \in DOMAIN timers =>
                    uptime' + timers'["auto_exit"] <= opts.run_for
            BY <1>o, <1>t, <2>1, <2>2, <2>6
        <3> QED BY <1>a, <1>s, <2>1, <2>5, <2>6, <3>2, <3>3, <3>4
    <2>7. CASE pc = "exec"
        <3>1. ASSUME opts.run_for > 0
              PROVE  /\ "auto_exit" \in DOMAIN timers
                     /\ uptime' + timers'["auto_exit"] <= opts.run_for
                     /\ timers'["auto_exit"] >= -MaxLag
                     /\ uptime' <= AutoDeadline
            <4>1. "auto_exit" \in DOMAIN timers /\ uptime + timers["auto_exit"] <= opts.run_for
                BY <2>1, <2>7, <3>1
            <4>2. timers["auto_exit"] > -MaxLag /\ timers["auto_exit"] \in Int
                  /\ timers'["auto_exit"] = timers["auto_exit"] - 1
                BY <1>t, <2>1, <2>7, <4>1
            <4> QED BY <1>a, <1>d, <1>o, <1>t, <2>2, <4>1, <4>2
        <3> QED BY <1>a, <1>s, <2>1, <2>5, <2>7, <3>1
    <2> QED BY <2>4, <2>6, <2>7
<1>11. CASE Signal
    <2>1. quit => quit'
        BY <1>11 DEF Signal, SignalArrives
    <2> QED BY <1>7, <1>11, <2>1 DEF Signal
<1>12. ASSUME NEW m \in DOMAIN pending, Settle(m) PROVE AutoTimes'
    BY <1>7, <1>12 DEF Settle
<1>13. CASE Reload
    BY <1>7, <1>13 DEF Reload, processVars
<1>14. CASE \E c \in Contents \cup {Unreadable} : Edit(c)
    BY <1>7, <1>14 DEF Edit, processVars
<1>15. CASE UNCHANGED vars
    BY <1>7, <1>15 DEF vars, processVars
<1> QED BY <1>1, <1>2, <1>3, <1>4, <1>5, <1>6, <1>8, <1>9, <1>10, <1>11, <1>12, <1>13,
           <1>14, <1>15 DEF Next

LEMMA TimesAreInTime == TypeInv /\ ChainInv /\ SenderTimes /\ AutoTimes => EndsInTime
<1> SUFFICES ASSUME TypeInv, ChainInv, SenderTimes, AutoTimes, pc # "ended"
             PROVE  /\ Sender => uptime <= SenderDeadline
                    /\ opts.run_for > 0 => uptime <= AutoDeadline
    BY DEF EndsInTime
<1>1. /\ opts.delay \in Nat /\ opts.run_for \in Nat /\ opts.count \in Nat /\ uptime \in Nat
      /\ MaxLag \in Nat /\ WarmUp \in Nat /\ QuitDelay \in Nat /\ pc \in Places
      /\ delay \in 0 .. opts.delay
    BY OptionTypes, DurationsAssumption DEF TypeInv, TypeOK
<1>2. ASSUME Sender PROVE uptime <= SenderDeadline
    <2>1. /\ Reach(opts.count + 1) \in Nat /\ Reach(0) <= Reach(opts.count + 1)
          /\ Reach(0) = opts.delay + WarmUp + MaxLag
          /\ SenderDeadline = Reach(opts.count + 1) + QuitDelay + MaxLag
        BY <1>1, ReachSteps
    <2>2. CASE pc = "exec"
        BY <1>2, <2>2 DEF SenderTimes
    <2>3. CASE pc # "exec"
        <3>1. pc \in {"load", "set_up", "asleep"}
            BY <1>1, <1>2, <2>3 DEF ChainInv, ChainCounts, Places
        <3>2. uptime <= opts.delay
            BY <1>1, <1>2, <3>1 DEF SenderTimes
        <3> QED BY <1>1, <2>1, <3>2
    <2> QED BY <2>2, <2>3
<1>3. ASSUME opts.run_for > 0 PROVE uptime <= AutoDeadline
    <2>1. CASE pc \in {"load", "set_up"}
        <3>1. uptime = 0 /\ (AutoDeadline = opts.delay \/ AutoDeadline = opts.run_for + MaxLag)
            BY <2>1 DEF AutoTimes, AutoDeadline
        <3> QED BY <1>1, <3>1
    <2>2. CASE pc \notin {"load", "set_up"}
        BY <1>3, <2>2 DEF AutoTimes
    <2> QED BY <2>1, <2>2
<1> QED BY <1>2, <1>3

(***************************************************************************)
(* THEOREM: a process that is to end by itself does so in time, whatever   *)
(* its options, the durations and the lag of the event loop are.           *)
(***************************************************************************)
THEOREM InTime == Spec => []EndsInTime
<1>1. Init => SenderTimes /\ AutoTimes
    BY TimesInit
<1>2. TypeInv /\ ChainInv /\ SenderTimes /\ AutoTimes /\ [Next]_vars => SenderTimes' /\ AutoTimes'
    BY SenderTimesNext, AutoTimesNext
<1> QED BY ChainAlways, TimesAreInTime, <1>1, <1>2, PTL DEF Spec

-----------------------------------------------------------------------------
(***************************************************************************)
(* After a signal.  Whoever publishes once more has been told to quit; as  *)
(* long as nobody was told, a signal came before the event loop ran, and   *)
(* the first timeout of the sender finds its flag.                         *)
(***************************************************************************)
SoonInv ==
    Sender /\ shutdownRequested =>
        /\ published <= heardAt + 1
        /\ pc = "exec" /\ ~quit =>
            /\ published = 0
            /\ "quit" \in DOMAIN timers => uptime + timers["quit"] <= Reach(1) + QuitDelay

LEMMA SoonInit == Init => SoonInv
BY DEF Init, SoonInv

LEMMA SoonNext ==
    TypeInv /\ ChainInv /\ SenderTimes /\ SoonInv /\ [Next]_vars => SoonInv'
<1> SUFFICES ASSUME TypeInv, ChainInv, SenderTimes, SoonInv, [Next]_vars PROVE SoonInv'
    OBVIOUS
<1>o. opts' = opts
    BY DEF Next, Load, SetUp, EnterExec, WarmUpFires, SendTimerFires, QuitFires, Settle,
           Reload, LeaveExec, EndFlush, Tick, Signal, Edit, vars, processVars
<1> SUFFICES ASSUME Sender', shutdownRequested'
             PROVE  /\ published' <= heardAt' + 1
                    /\ pc' = "exec" /\ ~quit' =>
                        /\ published' = 0
                        /\ "quit" \in DOMAIN timers' =>
                                uptime' + timers'["quit"] <= Reach(1) + QuitDelay
    BY <1>o DEF SoonInv, Reach
<1>s. Sender /\ opts' = opts
    BY <1>o DEF Sender
<1>t. /\ published \in Nat /\ uptime \in Nat /\ heardAt \in 0 .. published
      /\ \A t \in DOMAIN timers : timers[t] \in Int
      /\ opts.interval \in Nat /\ MaxLag \in Nat /\ QuitDelay \in Nat
    BY OptionTypes, DurationsAssumption DEF TypeInv, TypeOK
<1>r. /\ Reach(1) \in Nat /\ Reach(0) \in Nat
      /\ Reach(1) = Reach(0) + opts.interval + MaxLag
    BY ReachSteps
<1>1. CASE SetUp \/ Load
    <2>1. pc' # "exec" /\ UNCHANGED <<published, heardAt, shutdownRequested>>
        BY <1>1 DEF SetUp, Load
    <2> QED BY <1>s, <2>1 DEF SoonInv
<1>2. CASE EnterExec
    <2>1. pc = "asleep" /\ UNCHANGED <<published, heardAt, shutdownRequested>>
        BY <1>2 DEF EnterExec
    <2>2. published = 0 /\ DOMAIN timers \subseteq {"auto_exit"}
        BY <2>1 DEF ChainInv, ChainCounts, ChainTimers, Early
    <2>3. "quit" \notin DOMAIN timers'
        BY <1>2, <1>s, <2>2, EnterExecTimers
    <2> QED BY <1>s, <2>1, <2>2, <2>3 DEF SoonInv
<1>3. CASE WarmUpFires
    <2>1. UNCHANGED <<pc, quit, published, heardAt, shutdownRequested>>
        BY <1>3 DEF WarmUpFires
    <2>2. /\ "warm_up" \in DOMAIN timers
          /\ DOMAIN timers' = (DOMAIN timers \ {"warm_up"}) \cup {"send"}
        BY <1>3, WarmUpTimers
    <2>3. "quit" \notin DOMAIN timers'
        BY <2>2 DEF ChainInv, ChainTimers, Chain
    <2> QED BY <1>s, <2>1, <2>3 DEF SoonInv
<1>4. CASE SendTimerFires
    <2>1. /\ UNCHANGED <<uptime, pc>> /\ pc \notin Early
          /\ "send" \in DOMAIN timers /\ timers["send"] <= 0
          /\ Dispatching
        BY <1>4 DEF SendTimerFires, Due, Dispatching, Early
    <2>2. pc = "exec"
        BY <1>s, <2>1 DEF Dispatching, ChainInv, ChainCounts
    <2>3. timers["send"] >= -MaxLag /\ timers["send"] \in Int
        BY <1>t, <2>1 DEF ChainInv, ChainTimers, Chain
    <2>4. CASE /\ Finished /\ timers' = QuitSoon
               /\ UNCHANGED <<published, shutdownRequested, quit, heardAt>>
        <3>1. "quit" \in DOMAIN timers' /\ timers'["quit"] = QuitDelay
            BY <2>4, LastSendTimers
        <3>2. published <= heardAt + 1 /\ (~quit => published = 0)
            BY <1>s, <2>2, <2>4 DEF SoonInv
        <3>3. ASSUME published = 0 PROVE uptime <= Reach(1)
            <4>1. uptime + timers["send"] <= Reach(0) + opts.interval
                BY <1>s, <2>1, <3>3 DEF SenderTimes
            <4> QED BY <1>t, <1>r, <2>3, <4>1
        <3> QED BY <1>t, <1>r, <2>1, <2>4, <3>1, <3>2, <3>3
    <2>5. CASE ~Finished /\ Publish /\ (SignalArrives \/ UNCHANGED <<shutdownRequested, quit, heardAt>>)
        <3>1. ~shutdownRequested /\ published' = published + 1
            BY <2>5 DEF Finished, Publish
        <3>2. heardAt' = published /\ quit' = (quit \/ pc = "exec")
            BY <2>5, <3>1 DEF SignalArrives
        <3>3. quit'
            BY <2>2, <3>2
        <3> QED BY <1>t, <3>1, <3>2, <3>3
    <2> QED BY <1>4, <2>4, <2>5 DEF SendTimerFires
<1>5. ASSUME NEW t \in Timers, QuitFires(t)
      PROVE  published' <= heardAt' + 1 /\ (pc' = "exec" => quit')
    <2>1. /\ UNCHANGED <<pc, published, heardAt, shutdownRequested>>
          /\ quit' = (pc = "exec")
        BY <1>5 DEF QuitFires
    <2> QED BY <1>s, <2>1 DEF SoonInv
<1>6. CASE Signal
    <2>1. /\ UNCHANGED <<pc, timers, published, uptime>>
          /\ quit' = (quit \/ pc = "exec")
          /\ heardAt' = IF shutdownRequested THEN heardAt ELSE published
        BY <1>6 DEF Signal, SignalArrives
    <2>2. published <= heardAt' + 1
        BY <1>s, <1>t, <2>1 DEF SoonInv
    <2> QED BY <2>1, <2>2
<1>7. CASE Tick
    <2>1. /\ UNCHANGED <<pc, published, heardAt, shutdownRequested, quit>>
          /\ DOMAIN timers' = DOMAIN timers
          /\ \A t \in DOMAIN timers : timers'[t] = timers[t] - 1
        BY <1>7, TickTimers DEF Tick
    <2>2. uptime' \in Nat /\ uptime' <= uptime + 1
        BY <1>7, <1>t DEF Tick, Later
    <2>3. "quit" \in DOMAIN timers => uptime' + timers'["quit"] <= uptime + timers["quit"]
        BY <1>t, <2>1, <2>2
    <2> QED BY <1>s, <1>t, <1>r, <2>1, <2>2, <2>3 DEF SoonInv
<1>8. ASSUME UNCHANGED <<published, heardAt, shutdownRequested, timers, uptime, quit>>,
             pc' = pc \/ pc' # "exec"
      PROVE  /\ published' <= heardAt' + 1
             /\ pc' = "exec" /\ ~quit' =>
                  /\ published' = 0
                  /\ "quit" \in DOMAIN timers' =>
                        uptime' + timers'["quit"] <= Reach(1) + QuitDelay
    BY <1>s, <1>8 DEF SoonInv
<1>9. CASE LeaveExec
    BY <1>8, <1>9, <1>s DEF LeaveExec
<1>10. CASE EndFlush
    BY <1>8, <1>10 DEF EndFlush
<1>11. ASSUME NEW m \in DOMAIN pending, Settle(m)
       PROVE  UNCHANGED <<published, heardAt, shutdownRequested, timers, uptime, quit, pc>>
    BY <1>11 DEF Settle
<1>12. CASE Reload \/ (\E c \in Contents \cup {Unreadable} : Edit(c)) \/ UNCHANGED vars
    BY <1>8, <1>12 DEF Reload, Edit, vars, processVars
<1> QED BY <1>1, <1>2, <1>3, <1>4, <1>5, <1>6, <1>7, <1>8, <1>9, <1>10, <1>11, <1>12 DEF Next

LEMMA SoonIsSoon ==
    TypeInv /\ ChainInv /\ SenderTimes /\ SoonInv => StopsSoonAfterSignal
<1> SUFFICES ASSUME TypeInv, ChainInv, SenderTimes, SoonInv, Sender, shutdownRequested,
                    pc # "ended", ~quit
             PROVE  published = 0 /\ uptime <= FlagDeadline
    BY DEF StopsSoonAfterSignal, SoonInv
<1>1. /\ uptime \in Nat /\ pc \in Places /\ opts.delay \in Nat /\ delay \in 0 .. opts.delay
      /\ opts.interval \in Nat /\ MaxLag \in Nat /\ QuitDelay \in Nat /\ WarmUp \in Nat
      /\ \A t \in DOMAIN timers : timers[t] \in Int
    BY OptionTypes, DurationsAssumption DEF TypeInv, TypeOK
<1>2. /\ Reach(0) = opts.delay + WarmUp + MaxLag /\ Reach(0) \in Nat /\ Reach(1) \in Nat
      /\ Reach(1) = Reach(0) + opts.interval + MaxLag
    BY ReachSteps
<1>3. FlagDeadline = Reach(1) + QuitDelay + MaxLag
    BY <1>1, <1>2 DEF FlagDeadline
<1>4. CASE pc \in Early
    <2>1. published = 0
        BY <1>4 DEF ChainInv, ChainCounts
    <2>2. uptime <= opts.delay
        BY <1>1, <1>4 DEF SenderTimes, Early
    <2> QED BY <1>1, <1>2, <1>3, <2>1, <2>2
<1>5. CASE pc = "exec"
    <2>1. PICK t \in Chain : t \in DOMAIN timers /\ timers[t] >= -MaxLag
        BY <1>5 DEF ChainInv, ChainTimers
    <2>2. /\ published = 0
          /\ "quit" \in DOMAIN timers => uptime + timers["quit"] <= Reach(1) + QuitDelay
        BY <1>5 DEF SoonInv
    <2>3. CASE t = "warm_up"
        <3>1. uptime + timers[t] <= opts.delay + WarmUp
            BY <2>1, <2>3 DEF SenderTimes
        <3> QED BY <1>1, <1>2, <1>3, <2>1, <2>2, <3>1
    <2>4. CASE t = "send"
        <3>1. uptime + timers[t] <= Reach(0) + opts.interval
            BY <2>1, <2>2, <2>4 DEF SenderTimes
        <3> QED BY <1>1, <1>2, <1>3, <2>1, <2>2, <3>1
    <2>5. CASE t = "quit"
        BY <1>1, <1>2, <1>3, <2>1, <2>2, <2>5
    <2> QED BY <2>3, <2>4, <2>5 DEF Chain
<1>6. pc \notin {"flush", "shutdown"}
    BY DEF ChainInv, ChainCounts
<1> QED BY <1>1, <1>4, <1>5, <1>6 DEF Places, Early

(***************************************************************************)
(* THEOREM: after a signal a sender publishes the message whose handler    *)
(* was interrupted and no other; when nothing but the flag is left of the  *)
(* signal, it publishes none and is over soon after its start.             *)
(***************************************************************************)
THEOREM SoonAfterSignal == Spec => []StopsSoonAfterSignal
<1>1. Init => SenderTimes /\ SoonInv
    BY TimesInit, SoonInit
<1>2. TypeInv /\ ChainInv /\ SenderTimes /\ SoonInv /\ [Next]_vars => SenderTimes' /\ SoonInv'
    BY SenderTimesNext, SoonNext
<1> QED BY <1>1, <1>2, ChainAlways, SoonIsSoon, PTL DEF Spec

-----------------------------------------------------------------------------
(***************************************************************************)
(* The grace of the last message.  A message that is still pending when    *)
(* the send timer is armed was published an interval before that is due.   *)
(***************************************************************************)
\* Ages are counted far enough to tell.
FarHorizon == \A o \in Options : Horizon >= o.interval + QuitDelay - MaxLag

Grace == opts.interval + QuitDelay - MaxLag

Excused == shutdownRequested \/ ~NotTimedOut

GraceInv ==
    /\ pc = "exec" /\ quit => Chain \cap DOMAIN timers = {} \/ Excused
    /\ \A m \in DOMAIN pending :
        /\ "warm_up" \notin DOMAIN timers
        /\ "send" \in DOMAIN timers =>
                \/ pending[m] + timers["send"] >= opts.interval - MaxLag
                \/ pending[m] = Horizon
        /\ "quit" \in DOMAIN timers =>
                \/ pending[m] + timers["quit"] >= Grace
                \/ pending[m] = Horizon
        /\ (pc = "exec" /\ quit) \/ pc = "ended" => pending[m] >= Grace \/ Excused

LEMMA GraceInit == Init => GraceInv
<1> SUFFICES ASSUME Init PROVE GraceInv
    OBVIOUS
<1>1. DOMAIN pending = {} /\ pc = "load"
    BY DEF Init, Nothing
<1> QED BY <1>1 DEF GraceInv

LEMMA GraceNext ==
    ASSUME FarHorizon, TypeInv, ChainInv, GraceInv, [Next]_vars
    PROVE  GraceInv'
<1>s. opts' = opts /\ Grace' = Grace
    BY DEF Next, Load, SetUp, EnterExec, WarmUpFires, SendTimerFires, QuitFires, Settle,
           Reload, LeaveExec, EndFlush, Tick, Signal, Edit, vars, processVars, Grace
<1>o. /\ opts.interval \in Nat /\ MaxLag \in Nat /\ QuitDelay \in Nat /\ Horizon \in Nat
      /\ Grace \in Int /\ Grace = opts.interval + QuitDelay - MaxLag
    BY OptionTypes, DurationsAssumption DEF TypeInv, Grace
<1>h. Horizon >= Grace
    BY DEF FarHorizon, Grace, TypeInv, TypeOK
<1>t. /\ \A t \in DOMAIN timers : timers[t] \in Int
      /\ \A m \in DOMAIN pending : pending[m] \in 0 .. Horizon
      /\ published \in Nat
    BY DEF TypeInv, TypeOK
<1>e. /\ \A t, u \in Chain \cap DOMAIN timers : t = u
      /\ \A t \in Chain \cap DOMAIN timers : timers[t] >= -MaxLag
    BY DEF ChainInv, ChainTimers
<1> USE DEF GraceInv
<1>1. CASE Load
    <2>1. published = 0 /\ pending' = pending /\ pc' # "exec"
        BY <1>1 DEF Load, ChainInv, ChainCounts, Early
    <2>2. DOMAIN pending' = {}
        BY <2>1, NothingPending
    <2> QED BY <2>1, <2>2
<1>2. CASE SetUp
    <2>1. published = 0 /\ pending' = pending /\ pc' # "exec"
        BY <1>2 DEF SetUp, ChainInv, ChainCounts, Early
    <2>2. DOMAIN pending' = {}
        BY <2>1, NothingPending
    <2> QED BY <2>1, <2>2
<1>3. CASE EnterExec
    <2>1. published = 0 /\ pending' = pending /\ ~quit /\ quit' = quit
        BY <1>3 DEF EnterExec, ChainInv, ChainCounts, ChainTimers, Early
    <2>2. DOMAIN pending' = {}
        BY <2>1, NothingPending
    <2> QED BY <2>1, <2>2
<1>4. CASE WarmUpFires
    <2>1. "warm_up" \in DOMAIN timers /\ DOMAIN timers' = (DOMAIN timers \ {"warm_up"}) \cup {"send"}
        BY <1>4, WarmUpTimers
    <2>2. UNCHANGED <<pending, pc, quit, shutdownRequested>>
        BY <1>4 DEF WarmUpFires
    <2>3. DOMAIN pending = {}
        BY <2>1
    <2>4. Chain \cap DOMAIN timers # {}
        BY <2>1 DEF Chain
    <2>5. Excused => Excused'
        BY <1>s, <2>1, <2>2 DEF Excused, NotTimedOut
    <2> QED BY <2>2, <2>3, <2>4, <2>5
<1>5. CASE SendTimerFires
    <2>1. /\ UNCHANGED pc
          /\ UNCHANGED <<quit, shutdownRequested>> \/ Excused'
        BY <1>5 DEF SendTimerFires, SignalArrives, Excused
    <2>2. "send" \in DOMAIN timers /\ timers["send"] <= 0
        BY <1>5 DEF SendTimerFires, Due
    <2>3. Chain \cap DOMAIN timers = {"send"} /\ timers["send"] >= -MaxLag
        BY <1>e, <2>2 DEF Chain
    <2>4. pc # "ended"
        BY <1>5 DEF SendTimerFires, Due, Dispatching
    <2>5. pc = "exec" /\ quit => Excused
        BY <2>3
    <2>6. CASE timers' = QuitSoon /\ pending' = pending
        <3>1. /\ DOMAIN timers' = (DOMAIN timers \ {"send"}) \cup {"quit"}
              /\ timers'["quit"] = QuitDelay
            BY <2>6, LastSendTimers
        <3>2. "warm_up" \notin DOMAIN timers' /\ "send" \notin DOMAIN timers'
            BY <2>3, <3>1 DEF Chain
        <3>3. Excused => Excused'
            BY <1>s, <2>1, <3>1 DEF Excused, NotTimedOut
        <3>4. ASSUME NEW m \in DOMAIN pending
              PROVE  pending[m] + timers'["quit"] >= Grace \/ pending[m] = Horizon
            BY <1>o, <1>t, <2>2, <3>1
        <3> QED BY <1>s, <2>1, <2>4, <2>5, <2>6, <3>2, <3>3, <3>4
    <2>7. CASE ~Finished /\ Publish /\ (\E left \in {opts.interval, timers["send"] + opts.interval} :
                                           timers' = Armed("send", left))
        <3>1. PICK left \in {opts.interval, timers["send"] + opts.interval} : timers' = Armed("send", left)
            BY <2>7
        <3>2. /\ DOMAIN timers' = DOMAIN timers /\ timers'["send"] = left
              /\ left >= opts.interval - MaxLag /\ left \in Int
            BY <1>o, <1>t, <2>2, <2>3, <3>1, NextSendTimers
        <3>3. "warm_up" \notin DOMAIN timers' /\ "quit" \notin DOMAIN timers'
            BY <2>3, <3>2 DEF Chain
        <3>4. Excused => Excused'
            BY <1>s, <2>1, <3>2 DEF Excused, NotTimedOut
        <3>5. \A m \in DOMAIN pending' : pending'[m] \in Nat
            BY <1>t, <2>7 DEF Publish
        <3>6. ASSUME NEW m \in DOMAIN pending'
              PROVE  pending'[m] + timers'["send"] >= opts.interval - MaxLag
            <4>1. pending'[m] \in Nat
                BY <3>5
            <4> QED BY <1>o, <3>2, <4>1
        <3> QED BY <1>s, <2>1, <2>4, <2>5, <3>3, <3>4, <3>6
    <2> QED BY <1>5, <2>6, <2>7 DEF SendTimerFires
<1>6. ASSUME NEW t \in Timers, QuitFires(t) PROVE GraceInv'
    <2>1. UNCHANGED <<pc, pending, shutdownRequested>> /\ pc # "ended"
        BY <1>6 DEF QuitFires, Due, Dispatching
    <2>2. /\ t \in DOMAIN timers /\ timers[t] <= 0 /\ t \in {"quit", "auto_exit"}
          /\ DOMAIN timers' = DOMAIN timers \ {t}
          /\ \A u \in DOMAIN timers \ {t} : timers'[u] = timers[u]
        BY <1>6, QuitTimers DEF SameTimers
    <2>3. CASE t = "auto_exit"
        <3>1. Excused'
            BY <1>s, <2>2, <2>3 DEF Excused, NotTimedOut, ChainInv, ChainCounts
        <3> QED BY <1>s, <2>1, <2>2, <3>1
    <2>4. CASE t = "quit"
        <3>1. Chain \cap DOMAIN timers' = {}
            BY <1>e, <2>2, <2>4 DEF Chain
        <3>2. \A m \in DOMAIN pending : pending[m] >= Grace
            BY <1>o, <1>h, <1>t, <2>2, <2>4
        <3>3. "send" \notin DOMAIN timers' /\ "warm_up" \notin DOMAIN timers' /\ "quit" \notin DOMAIN timers'
            BY <3>1 DEF Chain
        <3> QED BY <1>s, <2>1, <3>1, <3>2, <3>3
    <2> QED BY <2>2, <2>3, <2>4
<1>7. ASSUME UNCHANGED <<timers, pc, shutdownRequested>>, quit' => quit,
             DOMAIN pending' \subseteq DOMAIN pending,
             \A m \in DOMAIN pending' : pending'[m] = pending[m]
      PROVE  GraceInv'
    BY <1>s, <1>7 DEF Excused, NotTimedOut
<1>8. CASE LeaveExec
    <2>1. UNCHANGED <<timers, pending, shutdownRequested>> /\ pc = "exec" /\ quit /\ pc' # "exec"
        BY <1>8 DEF LeaveExec
    <2>2. Excused => Excused'
        BY <1>s, <2>1 DEF Excused, NotTimedOut
    <2> QED BY <1>s, <2>1, <2>2
<1>9. CASE EndFlush
    <2>1. UNCHANGED <<pending, published>> /\ ~Sender /\ pc' # "exec"
        BY <1>9 DEF EndFlush, ChainInv, ChainCounts
    <2>2. DOMAIN pending' = {}
        BY <2>1, NothingPending DEF ChainInv, ChainCounts
    <2> QED BY <2>1, <2>2
<1>10. CASE Tick
    <2>1. /\ UNCHANGED <<pc, quit, shutdownRequested>>
          /\ DOMAIN timers' = DOMAIN timers
          /\ \A t \in DOMAIN timers : timers'[t] = timers[t] - 1
          /\ pc \in {"asleep", "exec", "flush", "shutdown"}
          /\ pc = "exec" => ~quit
        BY <1>10, TickTimers DEF Tick
    <2>2. /\ DOMAIN pending' = DOMAIN pending
          /\ \A m \in DOMAIN pending : pending'[m] = Later(pending[m])
        BY <1>10 DEF Tick
    <2>3. \A m \in DOMAIN pending : pending'[m] = Horizon \/ pending'[m] = pending[m] + 1
        BY <1>o, <1>t, <2>2 DEF Later
    <2>4. \A m \in DOMAIN pending : pending[m] = Horizon => pending'[m] = Horizon
        BY <1>o, <2>2 DEF Later
    <2>5. ASSUME NEW m \in DOMAIN pending, NEW t \in DOMAIN timers, NEW b \in Int,
                 pending[m] + timers[t] >= b \/ pending[m] = Horizon
          PROVE  pending'[m] + timers'[t] >= b \/ pending'[m] = Horizon
        BY <1>t, <2>1, <2>3, <2>4, <2>5
    <2>6. opts.interval - MaxLag \in Int
        BY <1>o
    <2> QED BY <1>s, <1>o, <2>1, <2>2, <2>5, <2>6
<1>11. CASE Signal
    <2>1. UNCHANGED <<timers, pending, pc>> /\ Excused'
        BY <1>11 DEF Signal, SignalArrives, Excused
    <2> QED BY <1>s, <2>1
<1>12. ASSUME NEW m \in DOMAIN pending, Settle(m) PROVE GraceInv'
    BY <1>7, <1>12 DEF Settle
<1>13. CASE Reload
    BY <1>7, <1>13 DEF Reload, processVars
<1>14. CASE \E c \in Contents \cup {Unreadable} : Edit(c)
    BY <1>7, <1>14 DEF Edit, processVars
<1>15. CASE UNCHANGED vars
    BY <1>7, <1>15 DEF vars, processVars
<1> QED BY <1>1, <1>2, <1>3, <1>4, <1>5, <1>6, <1>8, <1>9, <1>10, <1>11, <1>12, <1>13,
           <1>14, <1>15 DEF Next

(***************************************************************************)
(* THEOREM: the last message of a sender that ends by itself had at least  *)
(* an interval and the quit delay, less one lag, to be acknowledged.       *)
(***************************************************************************)
THEOREM LastMessageHasTime == ASSUME FarHorizon PROVE Spec => []LastMessageGrace
<1>1. GraceInv => LastMessageGrace
    <2> SUFFICES ASSUME GraceInv, Sender, EndedByItself, NEW m \in DOMAIN pending
                 PROVE  pending[m] >= opts.interval + QuitDelay - MaxLag
        BY DEF LastMessageGrace
    <2>1. pc = "ended" /\ ~Excused
        BY DEF EndedByItself, Excused
    <2> QED BY <2>1 DEF GraceInv, Grace
<1>2. TypeInv /\ ChainInv /\ GraceInv /\ [Next]_vars => GraceInv'
    BY GraceNext
<1> QED BY ChainAlways, GraceInit, <1>1, <1>2, PTL DEF Spec

=============================================================================
