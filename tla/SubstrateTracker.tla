-------------------------- MODULE SubstrateTracker --------------------------
(***************************************************************************)
(* Wafers and their movements (E90): pkg/driver/gem/substrate.go.          *)
(*                                                                         *)
(* A location is its type and a slot.  Any goroutine of the application    *)
(* calls the tracker; every method holds the lock from end to end.         *)
(***************************************************************************)
EXTENDS Naturals, Sequences

CONSTANTS
    Substrate,
    Slots,        \* slots of a location
    MaxMoves      \* bound on the movements of a substrate

VARIABLE substrates

LocationType == {"Port", "Chamber", "Buffer", "Aligner", "Robot"}
Location == LocationType \X Slots
SubstrateState == {"AtSource", "InTransit", "AtProcess", "Processed", "AtDest", "Rejected"}
Untracked == [state |-> "Untracked"]

\* mark, since: history, the last of MarkProcessed and MarkRejected that was
\* called for the wafer and the movements it had behind it then.
Wafers == [state : SubstrateState, location : Location, history : Seq(Location \X Location),
           mark : {"None", "Processed", "Rejected"}, since : Nat]

SubstrateTypeOK == substrates \in [Substrate -> Wafers \cup {Untracked}]

SubstrateInit == substrates = [s \in Substrate |-> Untracked]

-----------------------------------------------------------------------------

\* RegisterSubstrate overwrites what was known of the ID.
RegisterSubstrate(s, slot) ==
    substrates' = [substrates EXCEPT ![s] =
        [state |-> "AtSource", location |-> <<"Port", slot>>, history |-> <<>>,
         mark |-> "None", since |-> 0]]

StateAfterMoveAlways(state, type) ==
    CASE type = "Robot" -> "InTransit"
      [] type \in {"Chamber", "Aligner"} -> "AtProcess"
      [] type = "Port" -> "AtDest"
      [] type = "Buffer" -> state

\* The state by the type of the destination; a buffer, and a port for a wafer
\* that was not in process, leave it.
StateAfterMove(state, type) ==
    CASE type = "Robot" -> "InTransit"
      [] type \in {"Chamber", "Aligner"} -> "AtProcess"
      [] type = "Port" -> IF state \in {"Processed", "AtProcess"} THEN "AtDest" ELSE state
      [] type = "Buffer" -> state

MoveSubstrate(s, to) ==
    /\ substrates[s] # Untracked
    /\ Len(substrates[s].history) < MaxMoves
    /\ substrates' = [substrates EXCEPT
          ![s].location = to, ![s].history = Append(@, <<substrates[s].location, to>>),
          ![s].state = StateAfterMove(@, to[1])]

Mark(s, mark) ==
    /\ substrates[s] # Untracked
    /\ substrates' = [substrates EXCEPT
          ![s].state = mark, ![s].mark = mark, ![s].since = Len(substrates[s].history)]

MarkProcessed(s) == Mark(s, "Processed")
MarkRejected(s) == Mark(s, "Rejected")

RemoveSubstrate(s) == substrates' = [substrates EXCEPT ![s] = Untracked]

SubstrateNext ==
    \E s \in Substrate :
        \/ \E slot \in Slots : RegisterSubstrate(s, slot)
        \/ \E to \in Location : MoveSubstrate(s, to)
        \/ MarkProcessed(s) \/ MarkRejected(s) \/ RemoveSubstrate(s)

SubstrateSpec == SubstrateInit /\ [][SubstrateNext]_substrates

-----------------------------------------------------------------------------
(* Properties. *)

IsPath(w) ==
    \A i \in DOMAIN w.history :
        w.history[i][2] = IF i = Len(w.history) THEN w.location ELSE w.history[i + 1][1]

\* Movements a to b of w were all to places of these types.
Only(w, a, b, types) ==
    \A i \in DOMAIN w.history : a <= i /\ i <= b => w.history[i][2][1] \in types

\* Since the last mark, w moved to one of types and from there only to rest.
MovedTo(w, types, rest) ==
    \E i \in DOMAIN w.history :
        /\ w.since < i /\ w.history[i][2][1] \in types
        /\ Only(w, i + 1, Len(w.history), rest)

\* Since the last mark, w came to a port as a processed wafer, or as one that
\* was last in a chamber or an aligner, but for buffers.
ReturnedToPort(w) ==
    \E i \in DOMAIN w.history :
        /\ w.since < i /\ w.history[i][2][1] = "Port"
        /\ Only(w, i + 1, Len(w.history), {"Port", "Buffer"})
        /\ \/ w.mark = "Processed" /\ Only(w, w.since + 1, i - 1, {"Buffer"})
           \/ \E k \in DOMAIN w.history :
                 /\ w.since < k /\ k < i /\ w.history[k][2][1] \in {"Chamber", "Aligner"}
                 /\ Only(w, k + 1, i - 1, {"Buffer"})

Explanation(w) ==
    LET rest == Only(w, w.since + 1, Len(w.history), {"Port", "Buffer"}) IN
    CASE w.state = "AtSource" -> w.mark = "None" /\ rest
      [] w.state = "InTransit" -> MovedTo(w, {"Robot"}, {"Port", "Buffer"})
      [] w.state = "AtProcess" -> MovedTo(w, {"Chamber", "Aligner"}, {"Buffer"})
      [] w.state = "Processed" ->
             w.mark = "Processed" /\ Only(w, w.since + 1, Len(w.history), {"Buffer"})
      [] w.state = "AtDest" -> ReturnedToPort(w)
      [] w.state = "Rejected" -> w.mark = "Rejected" /\ rest

\* The history of a wafer is a path to where it is, and its movements since
\* the last mark explain each of the six states: in transit it was last on the
\* robot but for ports and buffers, in process last in a chamber or an aligner
\* but for buffers, at its destination it came back to a port from processing,
\* and at its source it was never anywhere else nor marked (MoveSubstrate,
\* MarkProcessed, MarkRejected).  Where the wafer is now is another matter:
\* a buffer leaves the state, so that AtSource, "In source carrier", and AtDest,
\* "Back in carrier", do not say that the wafer is in a carrier, and so does a
\* port in transit.
HistoryExplainsState ==
    \A s \in Substrate : substrates[s] # Untracked =>
        IsPath(substrates[s]) /\ Explanation(substrates[s])
=============================================================================
