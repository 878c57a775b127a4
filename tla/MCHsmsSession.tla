--------------------------- MODULE MCHsmsSession ---------------------------
(***************************************************************************)
(* HsmsSession with an arbitrary peer, for TLC.                            *)
(*                                                                         *)
(* The view leaves out what no later step and no property looks at: what a *)
(* message on its way to the peer says, the system ID of a message that is *)
(* being answered, the type of a reply (apart from a successful Select.rsp *)
(* for Select), and which channel is which: a channel is named by the call *)
(* that made it.                                                           *)
(***************************************************************************)
EXTENDS HsmsSession

Selects(m) == m # NoMsg /\ m.type = "SelectRsp"

MadeBy(c) == {w \in Waiter : mine[w] = c}
Content(w) == IF mine[w] = None THEN NoMsg ELSE ch[mine[w]]

EndpointView ==
    <<role, life, handles, nextSystemID, [w \in Waiter |-> req[w]],
      [i \in Ids |-> IF pending[i] = None THEN {} ELSE {MadeBy(pending[i])}],
      [w \in Waiter |-> IF Content(w) = NoMsg THEN NoMsg ELSE Content(w).id],
      IF target = None THEN {} ELSE {MadeBy(target)},
      Selects(Content("user")), Selects(rsp),
      [i \in DOMAIN inbound |-> inbound[i].type],
      IF cur = NoMsg \/ pc["reader"] \in {"handle", "deliver"} THEN cur ELSE cur.type,
      pc, in, Len(out), tcp, eof>>
=============================================================================
