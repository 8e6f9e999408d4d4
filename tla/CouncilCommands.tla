-------------------------- MODULE CouncilCommands --------------------------
(***************************************************************************)
(* The operator's command layer beside a running debate of the finance     *)
(* council (agent/src/council_commands.py, agent/src/agui_commands.py, and *)
(* what agent/src/agent.py does with the command state).                   *)
(*                                                                         *)
(* All commands of a room and the debates in it share one JSON document,   *)
(* the room.  A command that ran is appended to the command stream (XADD)  *)
(* and folded into the room (GET, change, SET).  Dispatchers and debates   *)
(* are coroutines of one event loop: they interleave only where they wait, *)
(* at a model call or between two polls of a pause.  The demo reset is a   *)
(* route run by a pool thread: its commands fall between any two others.   *)
(*                                                                         *)
(* Left out: texts, roles and numbers, the reserved command_queue, which   *)
(* nothing writes, the memo documents, which nothing reads back, the phase *)
(* a pause names, which nothing looks at, and rooms other than the default *)
(* one, which no debate reads.  The nodes from influence to persist touch  *)
(* the room no more than synthesis does and stand with it.                 *)
(*                                                                         *)
(* Definitions marked "Mutation:" are plausible bugs in the definition     *)
(* that follows them, kept to show which property would notice.            *)
(***************************************************************************)
EXTENDS Integers, Sequences, SequencesExt

CONSTANTS
    Commands,    \* ids of the commands operators send
    KindsOf,     \* bound of the model: the kinds each of them may have
    Debates,     \* runs of the council graph
    None,        \* no command, no debate
    AuditKeep,   \* _AUDIT_KEEP
    PinKeep,     \* _PIN_KEEP
    MaxHits,     \* most pins one command resolves to
    PausePolls,  \* polls in PAUSE_MAX_SECONDS
    MaxResets,   \* bound of the model: demo resets
    Failures     \* which best-effort Redis commands may fail

\* clarify, route_question, challenge_claim, defend_position and rerun_role are
\* "ask"; scenario_fork and compare_options are "scenario".
Kinds == {"ask", "scenario", "pin", "pause", "resume", "export"}

ASSUME NoneAssumption == None \notin Commands
ASSUME KindsAssumption == KindsOf \in [Commands -> SUBSET Kinds]
ASSUME BoundsAssumption ==
    /\ {AuditKeep, PinKeep, MaxHits} \subseteq Nat \ {0}
    /\ {PausePolls, MaxResets} \subseteq Nat
ASSUME FailuresAssumption == Failures \subseteq {"xadd", "get", "set"}

VARIABLES
    room,     \* atlas:command_state:<room>
    stream,   \* atlas:stream:commands
    command,  \* how far each command got
    debate,   \* how far each debate got
    reset,    \* the demo reset: its next Redis command, and how many there were
    recent    \* history: commands saved into the room since it was last emptied

vars == <<room, stream, command, debate, reset, recent>>

(***************************************************************************)
(* The room.                                                               *)
(***************************************************************************)
Maybe(S) == S \cup {None}

UpTo(S, n) == {s \in Seq(S) : Len(s) <= n}

\* default_command_state
EmptyRoom == [audit |-> <<>>, active |-> None, pins |-> <<>>, focus |-> None,
              scenario |-> None, paused |-> FALSE, export |-> None]

\* Python's s[-n:]
Keep(s, n) == SubSeq(s, IF Len(s) > n THEN Len(s) - n + 1 ELSE 1, Len(s))

\* A command resolves to as many pins as its search had hits.
PinsOf(cmd, c) ==
    IF cmd.kind = "pin" THEN [i \in 1..cmd.hits |-> c] ELSE <<>>

\* The state_patch of the handlers: one slice of the room each, and none from a
\* command that was refused.
Patched(doc, cmd, c) ==
    CASE cmd.kind = "ask" -> [doc EXCEPT !.focus = c]
      [] cmd.kind = "scenario" -> [doc EXCEPT !.scenario = c]
      [] cmd.kind = "export" -> [doc EXCEPT !.export = c]
      [] cmd.kind \in {"pause", "resume"} ->
            [doc EXCEPT !.paused = (cmd.kind = "pause")]
      [] cmd.kind = "pin" ->
            [doc EXCEPT !.pins = Keep(@ \o PinsOf(cmd, c), PinKeep)]
      [] OTHER -> doc

\* Mutation: the audit log is cut before the new entry is appended at its head.
AppliedAtHead(doc, cmd, c) ==
    [Patched(doc, cmd, c) EXCEPT !.audit = Keep(<<c>> \o @, AuditKeep),
                                 !.active = c]

\* apply_result_to_state
Applied(doc, cmd, c) ==
    [Patched(doc, cmd, c) EXCEPT !.audit = Keep(Append(@, c), AuditKeep),
                                 !.active = c]

\* load_command_state: a GET that fails reads as the empty room.
Reads == {room} \cup IF "get" \in Failures THEN {EmptyRoom} ELSE {}

(***************************************************************************)
(* State.                                                                  *)
(***************************************************************************)
Rooms == [audit : UpTo(Commands, AuditKeep), active : Maybe(Commands),
          pins : UpTo(Commands, PinKeep), focus : Maybe(Commands),
          scenario : Maybe(Commands), paused : BOOLEAN, export : Maybe(Commands)]

\* pc: what the command does next.  A command that is being loaded or saved
\* holds the event loop.
CommandStates == [pc : {"new", "ask", "load", "save", "done"},
                  kind : Kinds \cup {"unknown", "refused"},
                  hits : 0..MaxHits,
                  copy : Rooms,            \* what it is about to SET
                  late : BOOLEAN]          \* history: a debate began meanwhile
NewCommand == [pc |-> "new", kind |-> "unknown", hits |-> 0,
               copy |-> EmptyRoom, late |-> FALSE]

Nodes == <<"intake", "planner", "committee_parallel", "challenge", "debate",
           "synthesis", "END">>
Boundaries == {"planner", "committee_parallel", "challenge", "debate"}
End == Len(Nodes)
Failed == End + 1

\* at: the node the debate is in, 0 before it is submitted.
DebateStates == [at : 0..Failed, waiting : BOOLEAN, waited : 0..PausePolls]
NewDebate == [at |-> 0, waiting |-> FALSE, waited |-> 0]

TypeOK ==
    /\ room \in Rooms
    /\ stream \in Seq(Commands)
    /\ command \in [Commands -> CommandStates]
    /\ debate \in [Debates -> DebateStates]
    /\ reset \in [next : {"none", "streams", "keys"},
                  count : 0..MaxResets]
    /\ recent \in Seq(Commands)

Init ==
    /\ room = EmptyRoom
    /\ stream = <<>>
    /\ command = [c \in Commands |-> NewCommand]
    /\ debate = [d \in Debates |-> NewDebate]
    /\ reset = [next |-> "none", count |-> 0]
    /\ recent = <<>>

\* No command is inside _finalize, which never awaits.
LoopFree == \A c \in Commands : command[c].pc \notin {"load", "save"}

(***************************************************************************)
(* Commands.                                                               *)
(***************************************************************************)
\* The handler returned: record_command_event, which may fail quietly, opens
\* _finalize.
Record(c, cmd) ==
    /\ command' = [command EXCEPT ![c] = [cmd EXCEPT !.pc = "load"]]
    /\ \/ stream' = Append(stream, c)
       \/ "xadd" \in Failures /\ stream' = stream

(* dispatch_command: a command that runs to its end without waiting.  What the
   code rejects (unknown type or role, stack not live, context missing, nothing
   found) or fails at is "refused": recorded and audited, it changes no slice. *)
Dispatch(c) ==
    /\ LoopFree
    /\ command[c].pc = "new"
    /\ \E k \in (KindsOf[c] \ {"ask"}) \cup {"refused"} :
       \E n \in IF k = "pin" THEN 1..MaxHits ELSE {0} :
          Record(c, [command[c] EXCEPT !.kind = k, !.hits = n])
    /\ UNCHANGED <<room, debate, reset, recent>>

(* dispatch_command: a command that asks a role waits for the model ... *)
Ask(c) ==
    /\ LoopFree
    /\ command[c].pc = "new" /\ "ask" \in KindsOf[c]
    /\ command' = [command EXCEPT ![c].pc = "ask", ![c].kind = "ask"]
    /\ UNCHANGED <<room, stream, debate, reset, recent>>

(* ... and goes on when the model answered or the call failed. *)
Answer(c) ==
    /\ LoopFree
    /\ command[c].pc = "ask"
    /\ \E k \in {"ask", "refused"} : Record(c, [command[c] EXCEPT !.kind = k])
    /\ UNCHANGED <<room, debate, reset, recent>>

(* _finalize loads the room and applies the result to its copy ... *)
Load(c) ==
    /\ command[c].pc = "load"
    /\ \E doc \in Reads :
          command' = [command EXCEPT ![c].pc = "save",
                                     ![c].copy = Applied(doc, command[c], c)]
    /\ UNCHANGED <<room, stream, debate, reset, recent>>

(* ... and writes the copy back. *)
Save(c) ==
    /\ command[c].pc = "save"
    /\ command' = [command EXCEPT ![c].pc = "done", ![c].copy = EmptyRoom]
    /\ \/ /\ room' = command[c].copy
          /\ recent' = Append(recent, c)
       \/ /\ "set" \in Failures
          /\ UNCHANGED <<room, recent>>
    /\ UNCHANGED <<stream, debate, reset>>

(***************************************************************************)
(* Debates.                                                                *)
(***************************************************************************)
Running(d) == debate[d].at \in 1..(End - 1)

(* intake_node: reset_command_state. *)
Submit(d) ==
    /\ LoopFree
    /\ debate[d].at = 0
    /\ debate' = [debate EXCEPT ![d].at = 1]
    /\ \/ room' = EmptyRoom /\ recent' = <<>>
       \/ "set" \in Failures /\ UNCHANGED <<room, recent>>
    /\ command' = [c \in Commands |->
                      [command[c] EXCEPT !.late = @ \/ command[c].pc = "ask"]]
    /\ UNCHANGED <<stream, reset>>

(* A node ends and the next one starts; at a boundary it looks for a pause. *)
Move(d) ==
    /\ LoopFree
    /\ Running(d) /\ ~debate[d].waiting
    /\ \E doc \in Reads :
          debate' = [debate EXCEPT
              ![d].at = @ + 1,
              ![d].waiting = Nodes[debate[d].at + 1] \in Boundaries /\ doc.paused]
    /\ UNCHANGED <<room, stream, command, reset, recent>>

(* Mutation: a poll that finds the pause standing does not count. *)
PollForever(d) ==
    /\ LoopFree
    /\ Running(d) /\ debate[d].waiting
    /\ \E doc \in Reads :
          debate' = [debate EXCEPT ![d].waiting = doc.paused]
    /\ UNCHANGED <<room, stream, command, reset, recent>>

(* _honor_pause: one turn of its loop. *)
Poll(d) ==
    /\ LoopFree
    /\ Running(d) /\ debate[d].waiting
    /\ \E doc \in Reads :
          debate' = [debate EXCEPT
              ![d].waiting = doc.paused /\ debate[d].waited < PausePolls,
              ![d].waited = IF doc.paused /\ @ < PausePolls THEN @ + 1 ELSE 0]
    /\ UNCHANGED <<room, stream, command, reset, recent>>

(* A node raises: the preflight is red, a call is not caught, the client left. *)
Abort(d) ==
    /\ LoopFree
    /\ Running(d)
    /\ debate' = [debate EXCEPT ![d] = [NewDebate EXCEPT !.at = Failed]]
    /\ UNCHANGED <<room, stream, command, reset, recent>>

(***************************************************************************)
(* The demo reset, in its thread.                                          *)
(***************************************************************************)
DeleteRoom(next) ==
    /\ room' = EmptyRoom
    /\ recent' = <<>>
    /\ reset' = next
    /\ UNCHANGED <<stream, command, debate>>

(* full_demo_reset deletes the room's key ... *)
ResetKey ==
    /\ reset.next = "none" /\ reset.count < MaxResets
    /\ DeleteRoom([next |-> "streams", count |-> reset.count + 1])

(* ... clears the runtime streams ... *)
ResetStreams ==
    /\ reset.next = "streams"
    /\ stream' = <<>>
    /\ reset' = [reset EXCEPT !.next = "keys"]
    /\ UNCHANGED <<room, command, debate, recent>>

(* ... and deletes every command state once more with the other runtime keys. *)
ResetPattern == reset.next = "keys" /\ DeleteRoom([reset EXCEPT !.next = "none"])

(***************************************************************************)
(* The specification.                                                      *)
(***************************************************************************)
Serve(c) == Answer(c) \/ Load(c) \/ Save(c)
Proceed(d) == Move(d) \/ Poll(d)
DemoReset == ResetKey \/ ResetStreams \/ ResetPattern

Next ==
    \/ \E c \in Commands : Dispatch(c) \/ Ask(c) \/ Serve(c)
    \/ \E d \in Debates : Submit(d) \/ Proceed(d) \/ Abort(d)
    \/ DemoReset

Spec == Init /\ [][Next]_vars

\* The event loop keeps running every coroutine: model calls return, sleeps end.
FairSpec ==
    /\ Spec
    /\ \A c \in Commands : WF_vars(Serve(c))
    /\ \A d \in Debates : WF_vars(Proceed(d))

(***************************************************************************)
(* Properties.                                                             *)
(***************************************************************************)
Recorded(c) == \E i \in 1..Len(stream) : stream[i] = c
Before(c, e) == \E i, j \in 1..Len(stream) :
                    i < j /\ stream[i] = c /\ stream[j] = e
AuditFollowsStream ==
    \A i, j \in 1..Len(room.audit) :
        /\ i < j
        /\ Recorded(room.audit[i]) /\ Recorded(room.audit[j])
        => Before(room.audit[i], room.audit[j])

LatestPins ==
    FlattenSeq([i \in 1..Len(recent) |-> PinsOf(command[recent[i]], recent[i])])
Latest(kinds, c) ==
    \E i \in 1..Len(recent) :
        /\ recent[i] = c
        /\ command[c].kind \in kinds
        /\ \A j \in (i + 1)..Len(recent) : command[recent[j]].kind \notin kinds

\* No command that was saved is lost to another one: since the room was last
\* emptied (by a debate's intake or a demo reset) the audit log ends with the
\* latest commands, the pins end with the latest pins, and every other slice of
\* the room shows the latest command that set it; and the stream tells of them in
\* the same order.  Holds although commands wait for models, answers overtake each
\* other and a demo reset deletes the room between a command's GET and SET.
RoomRemembers ==
    /\ AuditFollowsStream
    /\ IsSuffix(Keep(recent, AuditKeep), room.audit)
    /\ IsSuffix(Keep(LatestPins, PinKeep), room.pins)
    /\ recent # <<>> => room.active = recent[Len(recent)]
    /\ \A c \in Commands :
          /\ Latest({"ask"}, c) => room.focus = c
          /\ Latest({"scenario"}, c) => room.scenario = c
          /\ Latest({"export"}, c) => room.export = c
          /\ Latest({"pause", "resume"}, c) =>
                room.paused = (command[c].kind = "pause")

\* No sequence of pauses keeps a debate from its end: every wait is bounded, and
\* synthesis and persist never wait (_honor_pause: "a submitted decision always
\* reaches a ruling").  A debate that fails has no ruling to reach.
DebatesReachTheirRuling ==
    \A d \in Debates :
        debate[d].at > 0 ~> debate[d].at \in {End, Failed}

\* What intake_node says of the reset: the room "accumulates commands for this
\* run only".
CommandsOfThisRun ==
    \A i \in 1..Len(room.audit) : ~command[room.audit[i]].late
=============================================================================
