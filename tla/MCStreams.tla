------------------------------ MODULE MCStreams ------------------------------
(***************************************************************************)
(* Streams for TLC: two raw streams with two of everything, none of them   *)
(* of make_stream; and three, also of make_stream, with one of everything. *)
(***************************************************************************)
EXTENDS Streams

CONSTANTS r1, r2, r3

VARIABLE used

InitStreams == Init /\ used \in {"order", "ownership"}

Few(seq, n) == Len(seq) <= n

NextStreams ==
  /\ Next /\ UNCHANGED used
  /\ used = "order" =>
       /\ r3 \notin live'
       /\ \A w \in Wrappers : wrapper'[w].kind # "managed"
  /\ used = "ownership" =>
       /\ Few(needs', 1)
       /\ \A e \in Events : Few(recorded'[e].after, 1)
       /\ \A r \in Raws : Few(queue'[r], 1)

\* The device works on every stream.
SpecStreams ==
  /\ InitStreams /\ [][NextStreams]_<<vars, used>>
  /\ \A r \in Raws : WF_vars(Run(r))
-----------------------------------------------------------------------------
\* Without make_stream, a raw stream the library has built lives exactly as
\* long as a wrapper that owns it (~IvyBaseStream, IvyCudaStream.hh:16).
OwnedEnd == used = "order" => OwnedStreamsEnd

\* And all work that was given is done in the end, whoever waits for whom.
WorkAndStreamsEnd == AllDone /\ []OwnedEnd
=============================================================================
