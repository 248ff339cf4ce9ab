--------------------------- MODULE ExecutionLimits ---------------------------
(***************************************************************************)
(* assertExecutionAllowed, the first thing an execute request meets: the   *)
(* kill switch, the allowlist of organizations, the acknowledgement of     *)
(* live payments and the hourly rate.  The settings are read when a        *)
(* process starts; the timestamps live in its memory, per organization,    *)
(* are lost with it and are never pruned.  A retry counts like a new call. *)
(***************************************************************************)
EXTENDS Integers, FiniteSets, Sequences

CONSTANTS
    Processes,        \* instances of the API service
    Orgs,
    MaxPerHour,       \* MAX_EXECUTIONS_PER_ORG_PER_HOUR
    Hour,             \* windowMs
    LastTick,         \* bound of the clock
    MaxRestarts       \* bound of restarts

ASSUME LimitsAssumption ==
    /\ MaxPerHour \in Nat /\ Hour \in Nat \ {0} /\ LastTick \in Nat /\ MaxRestarts \in Nat

VARIABLES
    instant,     \* Date.now()
    settings,    \* the settings a process started with
    history,     \* executionTimestamps of a process, by organization
    answered,    \* what the last call of a process got, per organization
    restarts     \* restarts so far

limitVars == <<instant, settings, history, answered, restarts>>

Settings == [kill: BOOLEAN, allowlist: SUBSET Orgs, live: BOOLEAN]
Answer == {"none", "allowed", "kill_switch", "org_not_allowed", "live_ack_required", "rate_limited"}

LimitsTypeOK ==
    /\ instant \in 0..LastTick
    /\ settings \in [Processes -> Settings]
    /\ \A p \in Processes, o \in Orgs :
        /\ \A n \in DOMAIN history[p][o] : history[p][o][n] \in 0..instant
        /\ answered[p][o] \in Answer
    /\ restarts \in 0..MaxRestarts

LimitsInit ==
    /\ instant = 0
    /\ settings \in [Processes -> Settings]
    /\ history = [p \in Processes |-> [o \in Orgs |-> <<>>]]
    /\ answered = [p \in Processes |-> [o \in Orgs |-> "none"]]
    /\ restarts = 0
-----------------------------------------------------------------------------
RecentThisHour(p, o) == {n \in DOMAIN history[p][o] : history[p][o][n] \div Hour = instant \div Hour}
Recent(p, o) == {n \in DOMAIN history[p][o] : instant - history[p][o][n] < Hour}

NotListed(p, o) == settings[p].allowlist # {} /\ o \notin settings[p].allowlist

Violation(p, o, acknowledged) ==
    IF settings[p].kill THEN "kill_switch"
    ELSE IF NotListed(p, o) THEN "org_not_allowed"
    ELSE IF settings[p].live /\ ~acknowledged THEN "live_ack_required"
    ELSE IF Cardinality(Recent(p, o)) >= MaxPerHour THEN "rate_limited"
    ELSE "allowed"

AssertExecutionAllowed(p, o, acknowledged) ==
    LET answer == Violation(p, o, acknowledged)
    IN  /\ answered' = [answered EXCEPT ![p][o] = answer]
        /\ history' = IF answer = "allowed" THEN [history EXCEPT ![p][o] = Append(@, instant)] ELSE history
        /\ UNCHANGED <<instant, settings, restarts>>

\* A deployment, or a crash: the new process has the settings of its day.
Restart(p) ==
    /\ restarts < MaxRestarts
    /\ restarts' = restarts + 1
    /\ settings' \in {[settings EXCEPT ![p] = s] : s \in Settings}
    /\ history' = [history EXCEPT ![p] = [o \in Orgs |-> <<>>]]
    /\ answered' = [answered EXCEPT ![p] = [o \in Orgs |-> "none"]]
    /\ UNCHANGED instant

Later ==
    /\ instant < LastTick
    /\ instant' = instant + 1
    /\ UNCHANGED <<settings, history, answered, restarts>>

LimitsNext ==
    \/ \E p \in Processes, o \in Orgs, acknowledged \in BOOLEAN : AssertExecutionAllowed(p, o, acknowledged)
    \/ \E p \in Processes : Restart(p)
    \/ Later

LimitsSpec == LimitsInit /\ [][LimitsNext]_limitVars
-----------------------------------------------------------------------------
\* Execution safety limits (executionSafety.ts:41): as long as a process lives
\* it lets no organization execute more often than MaxPerHour in any stretch
\* of time shorter than an hour, wherever that stretch begins.
HourlyCap ==
    \A p \in Processes, o \in Orgs : \A n \in DOMAIN history[p][o] :
        Cardinality({k \in DOMAIN history[p][o] :
            history[p][o][k] >= history[p][o][n] /\ history[p][o][k] < history[p][o][n] + Hour}) <= MaxPerHour
=============================================================================
