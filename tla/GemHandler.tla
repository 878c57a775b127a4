----------------------------- MODULE GemHandler -----------------------------
(***************************************************************************)
(* The equipment's message loop and its access policy:                     *)
(* HandleMessage of pkg/driver/gem/handler.go, pkg/security/policy.go.     *)
(*                                                                         *)
(* One goroutine (messageLoop of the equipment) takes the host's messages  *)
(* one at a time.  A handler takes and releases a manager's lock for each  *)
(* entry of the message, so a request is the sequence of its critical      *)
(* sections, "work"; other goroutines run between them.  What a section    *)
(* does is defined by the modules that extend this one: GemControl (state  *)
(* machine, alarms) and GemData (constants, reports, events, commands).    *)
(*                                                                         *)
(* The header and the body of a message are abstracted to its stream and   *)
(* function, its work, and the acknowledge code the body alone decides:    *)
(*   "ok"     the code that says accepted, or a reply with data            *)
(*   "error"  the body is too short or has the wrong types                 *)
(*   "none"   the body does not decode, or no handler knows the message:   *)
(*            nothing is sent                                              *)
(*                                                                         *)
(* The application may put a function of its own in the place of a         *)
(* handler (OnMessage).  The map of these has no lock, so it is filled     *)
(* before messageLoop starts and does not change.  What such a function    *)
(* does to the equipment is what the application does: steps of their own  *)
(* (DriveState, ApiSetEC, ...), which may come at any time.                *)
(***************************************************************************)
EXTENDS Naturals, Sequences

CONSTANTS
    Policies,      \* the policies the application may install
    NoPolicy       \* the nil policy of FullAccessPolicy

VARIABLES
    policy,          \* Handler.policy
    customHandlers,  \* Handler.customHandlers: the messages OnMessage was called for
    handler          \* the request under way in HandleMessage

handlerVars == <<policy, customHandlers, handler>>

\* The messages HandleMessage has a case for.
SF == {"S1F1", "S1F3", "S1F11", "S1F13", "S1F15", "S1F17", "S2F13", "S2F15", "S2F29",
       "S2F33", "S2F35", "S2F37", "S2F41", "S5F3", "S5F5", "S5F7"}

writeMessagesWithoutAlarms == {"S2F15", "S2F33", "S2F35", "S2F37", "S2F41", "S1F15", "S1F17"}

writeMessages == {"S2F15", "S2F33", "S2F35", "S2F37", "S2F41", "S1F15", "S1F17", "S5F3"}

\* A policy has an allow list (empty: no restriction), a deny list, a flag.
SessionPolicy == [allowed : SUBSET SF, denied : SUBSET SF, readOnly : BOOLEAN]
ReadOnlyPolicy == [allowed |-> {}, denied |-> {}, readOnly |-> TRUE]
MonitorPolicy == [allowed |-> {"S1F1", "S1F3", "S1F11", "S1F13", "S2F13", "S2F29", "S5F5", "S5F7"},
                  denied |-> {}, readOnly |-> FALSE]
FullAccessPolicy == NoPolicy

IsAllowed(p, sf) ==
    \/ p = NoPolicy
    \/ /\ p.readOnly => sf \notin writeMessages
       /\ sf \notin p.denied
       /\ p.allowed = {} \/ sf \in p.allowed

ASSUME PolicyAssumption ==
    /\ Policies \subseteq SessionPolicy \cup {NoPolicy}
    /\ NoPolicy \notin SessionPolicy

-----------------------------------------------------------------------------

Acks == {"ok", "error", "none", "abort"}
Idle == [pc |-> "idle", sf |-> "none", by |-> NoPolicy, work |-> <<>>, ack |-> "none"]

Message(sf, work) == [sf |-> sf, work |-> work, ack |-> "ok"]
Malformed(sf) == { [sf |-> sf, work |-> <<>>, ack |-> a] : a \in {"error", "none"} }

HandlerInit ==
    /\ policy = MonitorPolicy
    /\ customHandlers \in SUBSET SF
    /\ handler = Idle

\* SetPolicy writes the field without a lock, at any time.
SetPolicy(p) ==
    /\ p # policy
    /\ policy' = p
    /\ UNCHANGED <<customHandlers, handler>>

Request(sf, work, ack) == [pc |-> "run", sf |-> sf, by |-> policy, work |-> work, ack |-> ack]

\* HandleMessage up to the handler of the message.  A denied message is
\* answered by an abort and has no effect, also when the application has a
\* function for it; that function replies, or returns an error or no item.
HandleMessage(m) ==
    /\ handler.pc = "idle"
    /\ handler' \in
          CASE ~IsAllowed(policy, m.sf) -> {Request(m.sf, <<>>, "abort")}
            [] IsAllowed(policy, m.sf) /\ m.sf \in customHandlers ->
                  {Request(m.sf, <<>>, ack) : ack \in {"ok", "none"}}
            [] OTHER -> {Request(m.sf, m.work, m.ack)}
    /\ UNCHANGED <<policy, customHandlers>>

\* One critical section of the handler is over; ack is the code so far.
Advance(ack) ==
    /\ handler' = [handler EXCEPT !.work = Tail(@), !.ack = ack]
    /\ UNCHANGED <<policy, customHandlers>>

Running(op) ==
    /\ handler.pc = "run"
    /\ handler.work # <<>>
    /\ Head(handler.work)[1] = op

Arg(i) == Head(handler.work)[i + 1]

\* sendReply, unless there is nothing to send; messageLoop goes on.
Reply ==
    /\ handler.pc = "run"
    /\ handler.work = <<>>
    /\ handler' = Idle
    /\ UNCHANGED <<policy, customHandlers>>

\* What the policy in force when a message was admitted says about it: the
\* doc comments promise that MonitorPolicy and ReadOnlyPolicy let nothing
\* change the equipment.
Restricted(p) == p \in {MonitorPolicy, ReadOnlyPolicy}
=============================================================================
