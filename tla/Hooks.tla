----------------------------------- MODULE Hooks -----------------------------------
(***************************************************************************)
(* The hooks of one session (hooks/): the Stop hook, which reads the       *)
(* transcript from an offset of its own, keeps what it found in            *)
(* events.jsonl, and blocks, approves or leaves a nudge; the prompt hook,  *)
(* which shows one nudge; and at a session start (resume, compaction) the  *)
(* clearing of the state beside the sanitizer, which rewrites the          *)
(* transcript that Claude Code appends to.                                 *)
(*                                                                         *)
(* Each hook is a process that may be killed between two of its writes.    *)
(* Offsets, in bytes, are counted in entries here. A skill holds off the   *)
(* checks for the turn of its command: the limit of 20 turns never bites.  *)
(***************************************************************************)
EXTENDS Integers, Sequences, SequencesExt, FiniteSets

CONSTANTS Defer,      \* _CHECKIN_DEFER_TURNS
          Interval,   \* _NUDGE_INTERVAL
          MaxFails,   \* _MAX_CONSECUTIVE_FAILURES
          Kinds,      \* what may be appended
          MaxEntries, MaxStarts, MaxKills  \* bounds

HooksAssumption == Defer \in Nat /\ Interval \in Nat \ {0} /\ MaxEntries \in Nat

\* "say", "skill": the user; "checkin", "managed": a check-in, the latter of an
\* activity that the orchestrator manages; "log", "decide": recording tools;
\* "raw", "clean": a tool's answer, before and after the sanitizer; "other": what Claude Code notes by itself.
User == {"say", "skill"}
CheckIns == {"checkin", "managed"}
Recording == {"log", "decide"}

VARIABLES
    talk,    \* the transcript
    kept,    \* the state files; of events.jsonl the nudges apart: every reader tells
             \* them from the events: [events, nudges, offset, turn, blocks, activity,
             \* sanOffset, fails]
    phase,   \* "idle", "busy" (the agent works), "start", or a step of the Stop hook
    hook,    \* what the Stop hook has read: [new, to, turn]
    san,     \* the sanitizer: [at, read, from, fails, late (entries since its check),
             \* failed (times in a row)]
    clear,   \* the clearing has still to be done at this start
    starts, kills

hookVars == <<talk, kept, phase, hook, san, clear, starts, kills>>

Fresh == [events |-> <<>>, nudges |-> <<>>, offset |-> 0, turn |-> 0, blocks |-> 0, activity |-> "none",
          sanOffset |-> 0, fails |-> 0]
NoHook == [new |-> <<>>, to |-> 0, turn |-> 0]
NoSan == [at |-> "off", read |-> <<>>, from |-> 0, fails |-> 0, late |-> 0, failed |-> 0]

HookInit ==
    /\ talk = <<>> /\ kept = Fresh /\ phase = "idle" /\ hook = NoHook
    /\ san = NoSan /\ clear = FALSE /\ starts = 0 /\ kills = 0

--------------------------------------------------------------------------------
Event(e, name, turn) == [e |-> e, name |-> name, turn |-> turn]
Nudge(name) == [name |-> name, used |-> FALSE]

\* A message of the user begins a turn, a command leaves a skill event besides;
\* every call of a tool leaves an event of the turn it is in.
Leaves(k, turn) ==
    CASE k = "skill" -> <<Event("skill", k, turn + 1)>>
      [] k \in CheckIns \cup Recording -> <<Event("tool", k, turn)>>
      [] OTHER -> <<>>

Extracted(x, k) ==
    [events |-> x.events \o Leaves(k, x.turn), turn |-> IF k \in User THEN x.turn + 1 ELSE x.turn]

Extract(entries, turn) ==
    LET upTo[n \in 0 .. Len(entries)] ==
            IF n = 0 THEN [events |-> <<>>, turn |-> turn] ELSE Extracted(upTo[n - 1], entries[n])
    IN  upTo[Len(entries)]

Happened(events, names, after) ==
    \E i \in DOMAIN events :
        events[i].e = "tool" /\ events[i].name \in names /\ events[i].turn > after

InSkillSpan(events, turn) ==
    LET skills == SelectSeq(events, LAMBDA v : v.e = "skill")
    IN  skills # <<>> /\ Last(skills).turn >= turn

\* The nudges for the next prompt; sparse: a topic of the decision has no logs.
Nudges(events, turn, sparse) ==
    LET now == {i \in DOMAIN events : events[i].turn = turn /\ events[i].e = "tool"}
        decided == \E i \in now : events[i].name = "decide"
        alone == \A i \in now : events[i].name = "decide"
    IN  (IF turn > 0 /\ turn % Interval = 0 /\ ~Happened(events, Recording, turn - Interval)
         THEN <<Nudge("record")>> ELSE <<>>)
        \o (IF decided /\ alone THEN <<Nudge("follow")>> ELSE <<>>)
        \o (IF decided /\ sparse THEN <<Nudge("sparse")>> ELSE <<>>)

--------------------------------------------------------------------------------
Keep(f, v) == kept' = [kept EXCEPT ![f] = v]
Quiet == UNCHANGED <<san, clear, starts>>

\* The Stop hook. After a block it approves unseen, once.
StopBegin ==
    /\ phase = "busy"
    /\ IF kept.blocks > 0
       THEN Keep("blocks", 0) /\ phase' = "idle" /\ UNCHANGED hook
       ELSE LET reset == kept.offset > Len(talk)
                from == IF reset THEN 0 ELSE kept.offset
                found == Extract(SubSeq(talk, from + 1, Len(talk)), IF reset THEN 0 ELSE kept.turn)
            IN  /\ hook' = [new |-> found.events, to |-> Len(talk), turn |-> found.turn]
                /\ kept' = IF reset THEN [kept EXCEPT !.events = <<>>, !.nudges = <<>>] ELSE kept
                /\ phase' = "append"
    /\ UNCHANGED <<talk, kills>> /\ Quiet

StopAppend ==
    /\ phase = "append" /\ phase' = "offset"
    /\ Keep("events", kept.events \o hook.new)
    /\ UNCHANGED <<talk, hook, kills>> /\ Quiet

StopOffset ==
    /\ phase = "offset" /\ phase' = "turn"
    /\ Keep("offset", hook.to)
    /\ UNCHANGED <<talk, hook, kills>> /\ Quiet

StopTurn_One ==
    /\ phase = "turn" /\ phase' = "judge"
    /\ Keep("turn", IF hook.turn > kept.turn THEN kept.turn + 1 ELSE kept.turn)
    /\ UNCHANGED <<talk, hook, kills>> /\ Quiet

StopTurn ==
    /\ phase = "turn" /\ phase' = "judge"
    /\ Keep("turn", hook.turn)
    /\ UNCHANGED <<talk, hook, kills>> /\ Quiet

\* The activity of the last check-in, by the events.
CheckedIn ==
    LET ins == SelectSeq(kept.events, LAMBDA v : v.e = "tool" /\ v.name \in CheckIns)
    IN  IF ins = <<>> THEN kept.activity ELSE Last(ins).name

Approve(nudges) ==
    /\ kept' = [kept EXCEPT !.blocks = 0, !.activity = CheckedIn, !.nudges = @ \o nudges]
    /\ phase' = "idle"

StopJudge_NoCount ==
    /\ phase = "judge" /\ hook' = NoHook
    /\ LET turn == hook.turn
           mustCheckIn == ~Happened(kept.events, CheckIns, -1) /\ CheckedIn # "managed"
       IN  IF ~InSkillSpan(kept.events, turn) /\ mustCheckIn /\ turn = Defer
           THEN kept' = kept /\ phase' = "busy"
           ELSE \E sparse \in BOOLEAN : Approve(Nudges(kept.events, turn, sparse))
    /\ UNCHANGED <<talk, kills>> /\ Quiet

StopJudge ==
    /\ phase = "judge" /\ hook' = NoHook
    /\ LET turn == hook.turn
           mustCheckIn == ~Happened(kept.events, CheckIns, -1) /\ CheckedIn # "managed"
       IN  IF InSkillSpan(kept.events, turn)
           THEN Keep("blocks", 0) /\ phase' = "idle"
           ELSE IF mustCheckIn /\ turn = Defer
           THEN Keep("blocks", kept.blocks + 1) /\ phase' = "busy"
           ELSE IF CheckedIn = "managed" THEN Approve(<<>>)
           ELSE \E sparse \in BOOLEAN : Approve(Nudges(kept.events, turn, sparse))
    /\ UNCHANGED <<talk, kills>> /\ Quiet

\* Claude Code goes on when a hook fails or runs into its time limit.
Kill ==
    /\ phase \in {"append", "offset", "turn", "judge"} /\ kills < MaxKills
    /\ phase' = "idle" /\ hook' = NoHook /\ kills' = kills + 1
    /\ UNCHANGED <<talk, kept>> /\ Quiet

--------------------------------------------------------------------------------
\* The prompt hook: of the nudges not shown yet, the newest.
Unused == {i \in DOMAIN kept.nudges : ~kept.nudges[i].used}
Shown == CHOOSE i \in Unused : \A j \in Unused : j <= i

Used_Kept == kept.nudges
Used == [kept.nudges EXCEPT ![Shown].used = TRUE]

\* Killed, it may have marked the nudge without showing it. The message follows.
Prompt(k) ==
    /\ phase = "idle" /\ k \in User \cap Kinds /\ Len(talk) < MaxEntries
    /\ phase' = "busy" /\ talk' = Append(talk, k)
    /\ \/ UNCHANGED kills /\ (IF Unused = {} THEN kept' = kept ELSE Keep("nudges", Used))
       \/ kills < MaxKills /\ kills' = kills + 1 /\ UNCHANGED kept
    /\ UNCHANGED hook /\ Quiet

Work(k) ==
    /\ phase = "busy" /\ k \in Kinds \ User /\ Len(talk) < MaxEntries
    /\ talk' = Append(talk, k)
    /\ UNCHANGED <<kept, phase, hook, kills>> /\ Quiet

\* The user stops the agent: no Stop hook runs.
Interrupt == phase = "busy" /\ phase' = "idle" /\ UNCHANGED <<talk, kept, hook, kills>> /\ Quiet

--------------------------------------------------------------------------------
\* A session start: `hook_state.py clear` beside the sanitizer, both hooks of the
\* same event, while Claude Code may append.
Start ==
    /\ phase = "idle" /\ starts < MaxStarts
    /\ phase' = "start" /\ starts' = starts + 1 /\ clear' = TRUE
    /\ san' = [san EXCEPT !.at = "begin"]
    /\ UNCHANGED <<talk, kept, hook, kills>>

Clear ==
    /\ phase = "start" /\ clear /\ clear' = FALSE
    /\ kept' = Fresh
    /\ UNCHANGED <<talk, phase, hook, san, starts, kills>>

Sanitized(entries, from) ==
    [i \in DOMAIN entries |-> IF i > from /\ entries[i] = "raw" THEN "clean" ELSE entries[i]]

SanBegin ==
    /\ phase = "start" /\ san.at = "begin"
    /\ san' = IF kept.fails >= MaxFails THEN [san EXCEPT !.at = "done"]
              ELSE [san EXCEPT !.at = "scanned", !.read = talk, !.fails = kept.fails,
                               !.from = IF kept.sanOffset > Len(talk) THEN 0 ELSE kept.sanOffset]
    /\ UNCHANGED <<talk, kept, phase, hook, clear, starts, kills>>

Succeed ==
    /\ kept' = [kept EXCEPT !.fails = 0, !.sanOffset = Len(san.read)]
    /\ san' = [NoSan EXCEPT !.at = "done"]
Fail ==
    /\ Keep("fails", san.fails + 1)
    /\ san' = [NoSan EXCEPT !.at = "done", !.failed = san.failed + 1]

SanCheck_Blind ==
    /\ phase = "start" /\ san.at = "scanned"
    /\ san' = [san EXCEPT !.at = "checked"] /\ kept' = kept
    /\ UNCHANGED <<talk, phase, hook, clear, starts, kills>>

\* Nothing to change; or an error, or the file has been modified meanwhile; or it
\* may be replaced.
SanCheck ==
    /\ phase = "start" /\ san.at = "scanned"
    /\ LET nothing == Sanitized(san.read, san.from) = san.read
       IN  \/ nothing /\ Succeed
           \/ ~nothing /\ talk # san.read /\ Fail
           \/ ~nothing /\ talk = san.read /\ san' = [san EXCEPT !.at = "checked"] /\ kept' = kept
    /\ UNCHANGED <<talk, phase, hook, clear, starts, kills>>

SanReplace ==
    /\ phase = "start" /\ san.at = "checked"
    /\ talk' = Sanitized(san.read, san.from) /\ Succeed
    /\ UNCHANGED <<phase, hook, clear, starts, kills>>

AppendMeanwhile ==
    /\ phase = "start" /\ Len(talk) < MaxEntries
    /\ talk' = Append(talk, "other")
    /\ san' = IF san.at = "checked" THEN [san EXCEPT !.late = @ + 1] ELSE san
    /\ UNCHANGED <<kept, phase, hook, clear, starts, kills>>

Started ==
    /\ phase = "start" /\ ~clear /\ san.at = "done" /\ phase' = "idle"
    /\ UNCHANGED <<talk, kept, hook, san, clear, starts, kills>>

HookNext ==
    \/ StopBegin \/ StopAppend \/ StopOffset \/ StopTurn \/ StopJudge \/ Kill \/ Interrupt
    \/ \E k \in Kinds : Prompt(k) \/ Work(k)
    \/ AppendMeanwhile \/ Start \/ Clear \/ SanBegin \/ SanCheck \/ SanReplace \/ Started

HookSpec == HookInit /\ [][HookNext]_hookVars

\* The agent comes to its end, and the hooks run.
HookFairness == WF_hookVars(StopBegin \/ StopAppend \/ StopOffset \/ StopTurn \/ StopJudge)

--------------------------------------------------------------------------------
Count(s, k) == Cardinality({i \in DOMAIN s : s[i].name = k})

\* Every check-in and recording that the Stop hook has read is among its events,
\* also when it was killed between two writes; and if it never was, the events and
\* the turn are exactly those of the transcript, however many turns passed unseen.
EventsKept ==
    LET seen == Extract(SubSeq(talk, 1, IF kept.offset < Len(talk) THEN kept.offset ELSE Len(talk)), 0)
    IN  /\ \A k \in CheckIns \cup Recording : Count(seen.events, k) <= Count(kept.events, k)
        /\ kills = 0 /\ phase \in {"idle", "busy"} => kept.events = seen.events /\ kept.turn = seen.turn

\* A session that has checked in is not told to; what is called a missing record
\* is one: nothing has been recorded in the last turns when the user's next
\* message brings the reminder (a prompt hook that was killed brings it later).
RemindersAreTrue ==
    /\ phase = "judge" /\ phase' = "busy" =>
           \A i \in 1..kept.offset : talk[i] \notin CheckIns
    /\ \A k \in User :
           Prompt(k) /\ kills' = 0 /\ Unused # {} /\ kept.nudges[Shown].name = "record"
           => ~Happened(Extract(talk, 0).events, Recording, Extract(talk, 0).turn - Interval)

\* The hooks never keep the agent: when it ends its work, it is released, blocked
\* at most once before.
AgentIsReleased == phase = "busy" ~> phase = "idle"

\* The sanitizer takes nothing from the transcript that was there when it looked
\* whether it had changed.
TranscriptKept == Len(talk') < Len(talk) => Len(talk) - Len(talk') <= san.late

\* What the hooks tell an agent is true, and the sanitizer takes nothing from its
\* transcript that came after it looked (hooks/stop_hook.py, main;
\* hooks/sanitize_backfill_hook.py, _rewrite).
HooksAreTrue == [][RemindersAreTrue /\ TranscriptKept]_hookVars

\* As its first lines say: after three failures in a row it does not try again in
\* this session.
SkipsAfterThree == san.failed <= MaxFails

================================================================================
