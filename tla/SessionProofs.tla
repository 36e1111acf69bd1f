--------------------------- MODULE SessionProofs ----------------------------
(***************************************************************************)
(* Proofs about Session: what the peer sent is handled in order, what was  *)
(* enqueued is written in order, and nothing is enqueued behind a close,   *)
(* for frames, queues and send buffers without bound.                      *)
(***************************************************************************)
EXTENDS Session, SequenceTheorems, TLAPS

Piece == Nat \X {0, 1, 2}

\* The frames and pieces on their way in are typed, and so are those on their way out.
InTyped ==
    /\ sent \in Seq({"good", "bad"})
    /\ wire \in Seq(Piece) /\ buffer \in Seq(Piece)
    /\ handled \in Seq(Nat)

OutTyped ==
    /\ accepted \in Seq(Nat) /\ outbound \in Seq(Nat)
    /\ written \in Seq(Piece) /\ writing \in Seq(Piece)
    /\ DOMAIN pc = Thread

-----------------------------------------------------------------------------
(* What a step does to the frames.                                         *)

\* Only the peer, the read and the decoder touch what is on its way in.
LEMMA InSteps ==
    ASSUME [Next]_vars
    PROVE  \/ \E kind \in {"good", "bad"} : PeerSends(kind)
           \/ ReadData
           \/ Decode
           \/ UNCHANGED <<sent, wire, buffer, handled>>
<1>1. CASE PeerTakes \/ PeerCloses \/ enqueue \/ request_close \/ join
  BY <1>1 DEF PeerTakes, PeerCloses, enqueue, request_close, join, flow, socket
<1>2. CASE ReaderLoop \/ ReadNothing \/ Handled \/ on_closed
  BY <1>2 DEF ReaderLoop, ReadNothing, Handled, on_closed, flow, socket
<1>3. ASSUME NEW t, NEW next, NEW last, Enumerate(t, next, last)
      PROVE  UNCHANGED <<sent, wire, buffer, handled>>
  BY <1>3 DEF Enumerate, flow
<1>4. ASSUME NEW t, NEW point, NEW next, CloseLocked(t, point, next)
      PROVE  UNCHANGED <<sent, wire, buffer, handled>>
  BY <1>4 DEF CloseLocked, flow, socket
<1>5. CASE WriterWakes \/ Write
  BY <1>5 DEF WriterWakes, Write, socket
<1>6. CASE UNCHANGED vars
  BY <1>6 DEF vars, flow, socket
<1> QED
  BY <1>1, <1>2, <1>3, <1>4, <1>5, <1>6 DEF Next, PeerNext, reader_loop, writer_loop

\* Only enqueue(), the writer, and whoever closes touch what is on its way out.
LEMMA OutSteps ==
    ASSUME [Next]_vars
    PROVE  \/ enqueue
           \/ MarkClosing /\ UNCHANGED <<accepted, written, writing>>
           \/ WriterWakes
           \/ Write
           \/ UNCHANGED <<accepted, written, writing, outbound, closing>>
<1>1. ASSUME NEW kind, PeerSends(kind)
      PROVE  UNCHANGED <<accepted, written, writing, outbound, closing>>
  BY <1>1 DEF PeerSends, state
<1>2. CASE PeerTakes \/ PeerCloses \/ join
  BY <1>2 DEF PeerTakes, PeerCloses, join, flow, state
<1>3. CASE ReaderLoop \/ ReadData \/ ReadNothing \/ Decode \/ Handled \/ on_closed
  BY <1>3 DEF ReaderLoop, ReadData, ReadNothing, Decode, Handled, on_closed, flow, state
<1>4. ASSUME NEW t, NEW next, NEW last, Enumerate(t, next, last)
      PROVE  UNCHANGED <<accepted, written, writing, outbound, closing>>
  BY <1>4 DEF Enumerate, flow, state
<1>5. ASSUME NEW t, NEW point, NEW next, CloseLocked(t, point, next)
      PROVE  \/ MarkClosing /\ UNCHANGED <<accepted, written, writing>>
             \/ UNCHANGED <<accepted, written, writing, outbound, closing>>
  BY <1>5 DEF CloseLocked, flow
<1>6. ASSUME request_close
      PROVE  \/ MarkClosing /\ UNCHANGED <<accepted, written, writing>>
             \/ UNCHANGED <<accepted, written, writing, outbound, closing>>
  BY <1>6 DEF request_close, flow
<1>7. CASE UNCHANGED vars
  BY <1>7 DEF vars, flow, state
<1> QED
  BY <1>1, <1>2, <1>3, <1>4, <1>5, <1>6, <1>7 DEF Next, PeerNext, reader_loop, writer_loop

-----------------------------------------------------------------------------
(* Closing.                                                                *)

\* Once the session closes nothing waits in its queue, whoever closes it and
\* whatever enqueue() and the writer are doing at the time.
THEOREM QueueStaysEmpty == Spec => []NothingQueuedAfterClose
<1>1. Init => NothingQueuedAfterClose
  BY DEF Init, NothingQueuedAfterClose
<1>2. ASSUME NothingQueuedAfterClose, [Next]_vars
      PROVE  NothingQueuedAfterClose'
  <2>1. CASE enqueue
    BY <2>1 DEF enqueue, Accepts, NothingQueuedAfterClose
  <2>2. CASE MarkClosing
    BY <2>2 DEF MarkClosing, NothingQueuedAfterClose
  <2>3. CASE WriterWakes
    BY <1>2, <2>3 DEF WriterWakes, TakeFirst, NothingQueuedAfterClose
  <2>4. CASE Write
    BY <1>2, <2>4 DEF Write, state, NothingQueuedAfterClose
  <2>5. CASE UNCHANGED <<outbound, closing>>
    BY <1>2, <2>5 DEF NothingQueuedAfterClose
  <2> QED
    BY <1>2, <2>1, <2>2, <2>3, <2>4, <2>5, OutSteps
<1> QED
  BY <1>1, <1>2, PTL DEF Spec

-----------------------------------------------------------------------------
(***************************************************************************)
(* Frames on their way out.                                                *)
(*                                                                         *)
(* Until the writer ends or the session closes, the pieces of all frames   *)
(* that were accepted are those written, those of the frame in hand, and   *)
(* those of the frames in the queue.  The writer has no frame in hand when *)
(* it takes the next one.                                                  *)
(***************************************************************************)

\* Joining sequences of pieces is associative.
LEMMA PiecesJoined ==
    ASSUME NEW a \in Seq(Piece), NEW b \in Seq(Piece), NEW c \in Seq(Piece)
    PROVE  (a \o b) \o c = a \o (b \o c)
  BY ConcatAssociative

\* What is left behind the first k pieces of a sequence, and the first k pieces, which
\* together are the sequence.
LEMMA PiecesSplit ==
    ASSUME NEW s \in Seq(Piece), NEW k \in 1..Len(s)
    PROVE  /\ SubSeq(s, 1, k) \in Seq(Piece) /\ SubSeq(s, k + 1, Len(s)) \in Seq(Piece)
           /\ SubSeq(s, 1, k) \o SubSeq(s, k + 1, Len(s)) = s
           /\ Len(SubSeq(s, k + 1, Len(s))) = Len(s) - k
           /\ \A i \in 1..(Len(s) - k) : SubSeq(s, k + 1, Len(s))[i] = s[i + k]
<1> DEFINE l == Len(s)
<1>1. l \in Nat /\ \A i \in 1..l : s[i] \in Piece
  BY LenProperties, ElementOfSeq
<1>2. /\ k + 1 \in Int /\ l \in Int /\ 1 \in Int /\ k \in Int
      /\ \A i \in (k + 1)..l : s[i] \in Piece
      /\ l - (k + 1) + 1 = l - k /\ (~(k + 1 <= l) => l - k = 0)
      /\ \A i \in 1..(l - k) : (k + 1) + i - 1 = i + k
  BY <1>1
<1>3. \A i \in 1..k : s[i] \in Piece
  BY <1>1
<1>4. SubSeq(s, 1, k) \o SubSeq(s, k + 1, l) = s
  <2>1. 1 \in 1..(l + 1) /\ k \in 0..l /\ 1 - 1 = 0 /\ l \in k..l
    BY <1>1
  <2>2. SubSeq(s, 1, k) \o SubSeq(s, k + 1, l) = SubSeq(s, 1, l)
    BY <1>2, <2>1, ConcatAdjacentSubSeq
  <2>3. SubSeq(s, 1, l) = s
    BY SubSeqFull
  <2> QED
    BY <2>2, <2>3
<1> HIDE DEF l
<1>5. SubSeq(s, 1, k) \in Seq(Piece)
  BY <1>2, <1>3, SubSeqProperties
<1>6. SubSeq(s, k + 1, l) \in Seq(Piece)
  BY <1>2, SubSeqProperties
<1>7. Len(SubSeq(s, k + 1, l)) = l - k
  BY <1>2, SubSeqProperties
<1>8. \A i \in 1..(l - k) : SubSeq(s, k + 1, l)[i] = s[i + k]
  <2>1. \A i \in 1..(l - (k + 1) + 1) : SubSeq(s, k + 1, l)[i] = s[(k + 1) + i - 1]
    BY <1>2, SubSeqProperties
  <2> QED
    BY <1>2, <2>1
<1> QED
  BY <1>4, <1>5, <1>6, <1>7, <1>8 DEF l

\* The pieces of no frame are none.
LEMMA PiecesOfNone == PiecesOf(<<>>) = <<>>
<1>1. Len(<<>>) = 0
  BY EmptySeq
<1>2. 2 * 0 = 0 /\ 1..0 = {}
  OBVIOUS
<1>3. PiecesOf(<<>>) = [i \in {} |-> Pieces((<<>>)[(i + 1) \div 2])[2 - (i % 2)]]
  BY <1>1, <1>2 DEF PiecesOf
<1>4. PiecesOf(<<>>) \in [1..0 -> Piece]
  BY <1>2, <1>3
<1>5. PiecesOf(<<>>) \in UNION {[1..n -> Piece] : n \in Nat}
  BY <1>4
<1>6. PiecesOf(<<>>) \in Seq(Piece)
  BY <1>5, SeqDef, Zenon
<1>7. Len(PiecesOf(<<>>)) = 0
  <2>1. DOMAIN PiecesOf(<<>>) = {}
    BY <1>3
  <2>2. Len(PiecesOf(<<>>)) \in Nat /\ DOMAIN PiecesOf(<<>>) = 1..Len(PiecesOf(<<>>))
    BY <1>6, LenProperties
  <2> QED
    BY <2>1, <2>2
<1> QED
  BY <1>6, <1>7, EmptySeq

\* Frames are cut into typed pieces, two of each.
LEMMA PiecesTyped ==
    ASSUME NEW s \in Seq(Nat)
    PROVE  /\ PiecesOf(s) \in Seq(Piece) /\ Len(PiecesOf(s)) = 2 * Len(s)
           /\ Len(s) \in Nat
           /\ \A i \in 1..(2 * Len(s)) :
                 PiecesOf(s)[i] = <<s[(i + 1) \div 2], 2 - (i % 2)>>
<1>0. \A n, i : i \in {1, 2} => Pieces(n)[i] = <<n, i>>
  BY DEF Pieces
<1>1. Len(s) \in Nat /\ s \in [1..Len(s) -> Nat]
  BY LenProperties
<1>2. \A i \in 1..(2 * Len(s)) : (i + 1) \div 2 \in 1..Len(s) /\ 2 - (i % 2) \in {1, 2}
  BY <1>1
<1>3. \A i \in 1..(2 * Len(s)) : <<s[(i + 1) \div 2], 2 - (i % 2)>> \in Piece
  BY <1>1, <1>2 DEF Piece
<1>4. PiecesOf(s) \in [1..(2 * Len(s)) -> Piece]
  <2>1. \A i \in 1..(2 * Len(s)) : Pieces(s[(i + 1) \div 2])[2 - (i % 2)] \in Piece
    BY <1>0, <1>2, <1>3
  <2> QED
    BY <2>1 DEF PiecesOf
<1>5. 2 * Len(s) \in Nat
  BY <1>1
<1>6. PiecesOf(s) \in Seq(Piece)
  <2>1. PiecesOf(s) \in UNION {[1..n -> Piece] : n \in Nat}
    BY <1>4, <1>5
  <2> QED
    BY <2>1, SeqDef, Zenon
<1>7. Len(PiecesOf(s)) = 2 * Len(s)
  <2>1. DOMAIN PiecesOf(s) = 1..(2 * Len(s))
    BY DEF PiecesOf
  <2>2. Len(PiecesOf(s)) \in Nat /\ DOMAIN PiecesOf(s) = 1..Len(PiecesOf(s))
    BY <1>6, LenProperties
  <2> QED
    BY <1>5, <2>1, <2>2
<1>8. \A i \in 1..(2 * Len(s)) : PiecesOf(s)[i] = <<s[(i + 1) \div 2], 2 - (i % 2)>>
  <2>1. \A i \in 1..(2 * Len(s)) :
           PiecesOf(s)[i] = Pieces(s[(i + 1) \div 2])[2 - (i % 2)]
    BY DEF PiecesOf
  <2> QED
    BY <1>0, <1>2, <2>1
<1> QED
  BY <1>1, <1>6, <1>7, <1>8

\* The two pieces of one frame.
LEMMA TwoPieces ==
    ASSUME NEW n \in Nat
    PROVE  /\ Pieces(n) \in Seq(Piece) /\ Len(Pieces(n)) = 2
           /\ Pieces(n)[1] = <<n, 1>> /\ Pieces(n)[2] = <<n, 2>>
  BY DEF Pieces, Piece

\* A frame adds its pieces at the end ...
LEMMA PiecesAppend ==
    ASSUME NEW s \in Seq(Nat), NEW n \in Nat
    PROVE  PiecesOf(Append(s, n)) = PiecesOf(s) \o Pieces(n)
<1> DEFINE a == Append(s, n)
           l == PiecesOf(a)
           r == PiecesOf(s) \o Pieces(n)
<1>1. /\ a \in Seq(Nat) /\ Len(a) = Len(s) + 1 /\ a[Len(s) + 1] = n
      /\ \A i \in 1..Len(s) : a[i] = s[i]
  BY AppendProperties
<1>2. Len(s) \in Nat
  BY LenProperties
<1>3. /\ l \in Seq(Piece) /\ Len(l) = 2 * Len(s) + 2
      /\ \A i \in 1..(2 * Len(s) + 2) : l[i] = <<a[(i + 1) \div 2], 2 - (i % 2)>>
  <2>1. /\ l \in Seq(Piece) /\ Len(l) = 2 * (Len(s) + 1)
        /\ \A i \in 1..(2 * (Len(s) + 1)) : l[i] = <<a[(i + 1) \div 2], 2 - (i % 2)>>
    BY <1>1, PiecesTyped
  <2>2. 2 * (Len(s) + 1) = 2 * Len(s) + 2
    BY <1>2
  <2> QED
    BY <2>1, <2>2
<1>4. /\ r \in Seq(Piece) /\ Len(r) = 2 * Len(s) + 2
      /\ \A i \in 1..(2 * Len(s) + 2) :
            r[i] = IF i <= 2 * Len(s) THEN PiecesOf(s)[i]
                                      ELSE Pieces(n)[i - 2 * Len(s)]
  <2>1. /\ r \in Seq(Piece) /\ Len(r) = Len(PiecesOf(s)) + Len(Pieces(n))
        /\ \A i \in 1..(Len(PiecesOf(s)) + Len(Pieces(n))) :
              r[i] = IF i <= Len(PiecesOf(s)) THEN PiecesOf(s)[i]
                                              ELSE Pieces(n)[i - Len(PiecesOf(s))]
    BY PiecesTyped, TwoPieces, ConcatProperties
  <2>2. Len(PiecesOf(s)) = 2 * Len(s) /\ Len(Pieces(n)) = 2
    BY PiecesTyped, TwoPieces
  <2> QED
    BY <2>1, <2>2
<1> HIDE DEF a, l, r
<1>5. ASSUME NEW i \in 1..(2 * Len(s) + 2)
      PROVE  l[i] = r[i]
  <2>1. CASE i <= 2 * Len(s)
    <3>1. (i + 1) \div 2 \in 1..Len(s) /\ i \in 1..(2 * Len(s))
      BY <1>2, <2>1
    <3> QED
      BY <1>1, <1>3, <1>4, <2>1, <3>1, PiecesTyped
  <2>2. CASE i = 2 * Len(s) + 1
    <3>1. (i + 1) \div 2 = Len(s) + 1 /\ 2 - (i % 2) = 1 /\ i - 2 * Len(s) = 1
          /\ ~(i <= 2 * Len(s))
      BY <1>2, <2>2
    <3> QED
      BY <1>1, <1>3, <1>4, <3>1, TwoPieces
  <2>3. CASE i = 2 * Len(s) + 2
    <3>1. (i + 1) \div 2 = Len(s) + 1 /\ 2 - (i % 2) = 2 /\ i - 2 * Len(s) = 2
          /\ ~(i <= 2 * Len(s))
      BY <1>2, <2>3
    <3> QED
      BY <1>1, <1>3, <1>4, <3>1, TwoPieces
  <2> QED
    BY <1>2, <2>1, <2>2, <2>3
<1>6. l = r
  BY <1>3, <1>4, <1>5, SeqEqual
<1> QED
  BY <1>6 DEF a, l, r

\* ... and takes them from the front.
LEMMA PiecesHead ==
    ASSUME NEW s \in Seq(Nat), s # <<>>
    PROVE  PiecesOf(s) = Pieces(Head(s)) \o PiecesOf(Tail(s))
<1> DEFINE h == Head(s)
           t == Tail(s)
           l == PiecesOf(s)
           r == Pieces(h) \o PiecesOf(t)
<1>1. /\ h \in Nat /\ t \in Seq(Nat) /\ Len(t) = Len(s) - 1
      /\ \A i \in 1..Len(t) : t[i] = s[i + 1]
  BY HeadTailProperties
<1>2. h = s[1] /\ Len(s) \in Nat \ {0}
  BY EmptySeq, LenProperties
<1>3. /\ l \in Seq(Piece) /\ Len(l) = 2 * Len(s)
      /\ \A i \in 1..(2 * Len(s)) : l[i] = <<s[(i + 1) \div 2], 2 - (i % 2)>>
  BY PiecesTyped
<1>4. /\ r \in Seq(Piece) /\ Len(r) = 2 + 2 * Len(t)
      /\ \A i \in 1..(2 + 2 * Len(t)) :
            r[i] = IF i <= 2 THEN Pieces(h)[i] ELSE PiecesOf(t)[i - 2]
  <2>1. /\ r \in Seq(Piece) /\ Len(r) = Len(Pieces(h)) + Len(PiecesOf(t))
        /\ \A i \in 1..(Len(Pieces(h)) + Len(PiecesOf(t))) :
              r[i] = IF i <= Len(Pieces(h)) THEN Pieces(h)[i]
                                            ELSE PiecesOf(t)[i - Len(Pieces(h))]
    BY <1>1, PiecesTyped, TwoPieces, ConcatProperties
  <2>2. Len(PiecesOf(t)) = 2 * Len(t) /\ Len(Pieces(h)) = 2
    BY <1>1, PiecesTyped, TwoPieces
  <2> QED
    BY <2>1, <2>2
<1>5. 2 + 2 * Len(t) = 2 * Len(s)
  BY <1>1, <1>2
<1> HIDE DEF h, t, l, r
<1>6. ASSUME NEW i \in 1..(2 * Len(s))
      PROVE  l[i] = r[i]
  <2>1. CASE i = 1
    <3>1. (i + 1) \div 2 = 1 /\ 2 - (i % 2) = 1 /\ i <= 2
      BY <2>1
    <3> QED
      BY <1>1, <1>2, <1>3, <1>4, <1>5, <2>1, <3>1, TwoPieces
  <2>2. CASE i = 2
    <3>1. (i + 1) \div 2 = 1 /\ 2 - (i % 2) = 2 /\ i <= 2
      BY <2>2
    <3> QED
      BY <1>1, <1>2, <1>3, <1>4, <1>5, <2>2, <3>1, TwoPieces
  <2>3. CASE i > 2
    <3>1. /\ (i - 2 + 1) \div 2 \in 1..Len(t) /\ (i + 1) \div 2 = ((i - 2 + 1) \div 2) + 1
          /\ (i - 2) % 2 = i % 2 /\ ~(i <= 2) /\ i - 2 \in 1..(2 * Len(t))
      BY <1>1, <1>2, <2>3
    <3>2. PiecesOf(t)[i - 2] = <<t[(i - 2 + 1) \div 2], 2 - ((i - 2) % 2)>>
      BY <1>1, <3>1, PiecesTyped
    <3> QED
      BY <1>1, <1>3, <1>4, <1>5, <3>1, <3>2
  <2> QED
    BY <1>2, <2>1, <2>2, <2>3
<1>7. l = r
  BY <1>3, <1>4, <1>5, <1>6, SeqEqual
<1> QED
  BY <1>7 DEF h, t, l, r

\* From pc to q a writer that is done stays so, and nobody makes it idle.
Moves(q) ==
    /\ DOMAIN q = Thread
    /\ pc["writer"] = "done" => q["writer"] = "done"
    /\ q["writer"] = "idle" => pc["writer"] = "idle"

\* Another thread goes on, the writer goes on but not to its start, an event is set.
LEMMA ThreadMoves ==
    ASSUME DOMAIN pc = Thread
    PROVE  /\ Moves(pc)
           /\ \A at : \A t \in Thread \ {"writer"} : Moves([pc EXCEPT ![t] = at])
           /\ \A at : at # "idle" /\ (pc["writer"] = "done" => at = "done") =>
                        Moves([pc EXCEPT !["writer"] = at])
           /\ \A q : Moves(q) => Moves(Released(q))
<1>1. "writer" \in Thread
  BY DEF Thread
<1>2. ASSUME NEW q, Moves(q)
      PROVE  Moves(Released(q))
  <2>1. DOMAIN Released(q) = Thread
        /\ Released(q)["writer"] = IF q["writer"] = "wait" THEN "woken" ELSE q["writer"]
    BY <1>1 DEF Released
  <2> QED
    BY <1>2, <2>1 DEF Moves
<1>3. ASSUME NEW t \in Thread \ {"writer"}, NEW at
      PROVE  Moves([pc EXCEPT ![t] = at])
  <2>1. DOMAIN [pc EXCEPT ![t] = at] = Thread
    OBVIOUS
  <2>2. [pc EXCEPT ![t] = at]["writer"] = pc["writer"]
    BY <1>1
  <2> QED
    BY <2>1, <2>2 DEF Moves
<1>4. ASSUME NEW at, at # "idle", pc["writer"] = "done" => at = "done"
      PROVE  Moves([pc EXCEPT !["writer"] = at])
  <2>1. DOMAIN [pc EXCEPT !["writer"] = at] = Thread
    OBVIOUS
  <2>2. [pc EXCEPT !["writer"] = at]["writer"] = at
    BY <1>1
  <2> QED
    BY <1>4, <2>1, <2>2 DEF Moves
<1>5. Moves(pc)
  BY DEF Moves
<1> QED
  BY <1>2, <1>3, <1>4, <1>5

\* Whatever a step does, the writer becomes idle only by writing, or when the
\* session closes.
LEMMA WriterMoves ==
    ASSUME DOMAIN pc = Thread, [Next]_vars
    PROVE  \/ Moves(pc')
           \/ Write
           \/ MarkClosing /\ DOMAIN pc' = Thread /\ pc["writer"] = "close"
<1>0. {"reader", "closer"} \subseteq Thread \ {"writer"}
  BY DEF Thread
<1>1. ASSUME NEW event, Post(event, pc)
      PROVE  Moves(pc')
  BY <1>1, ThreadMoves DEF Post
<1>2. CASE PeerNext
  BY <1>1, <1>2 DEF PeerNext, PeerSends, PeerTakes, PeerCloses
<1>3. CASE enqueue \/ UNCHANGED vars
  <2>1. pc' = pc
    BY <1>3 DEF enqueue, vars
  <2> QED
    BY <2>1, ThreadMoves
<1>4. CASE request_close \/ join
  <2>1. \A at : Moves([pc EXCEPT !["closer"] = at])
    BY <1>0, ThreadMoves
  <2>2. \/ \E at : pc' = [pc EXCEPT !["closer"] = at]
        \/ \E at : pc' = Released([pc EXCEPT !["closer"] = at])
    BY <1>4 DEF request_close, Signal, join
  <2> QED
    BY <2>1, <2>2, ThreadMoves
<1>5. CASE ReaderLoop \/ ReadNothing \/ Decode \/ Handled \/ on_closed
  <2>1. \A at : Moves([pc EXCEPT !["reader"] = at])
    BY <1>0, ThreadMoves
  <2>2. \E at : pc' = [pc EXCEPT !["reader"] = at]
    BY <1>5 DEF ReaderLoop, WaitForIo, ReadNothing, Decode, Handled, on_closed
  <2> QED
    BY <2>1, <2>2
<1>6. CASE ReadData
  <2> DEFINE p == [pc EXCEPT !["reader"] = "decode"]
  <2>1. Moves(p)
    BY <1>0, ThreadMoves
  <2>2. pc' = p \/ pc' = Released(p)
    BY <1>6 DEF ReadData
  <2> HIDE DEF p
  <2> QED
    BY <2>1, <2>2, ThreadMoves
<1>7. ASSUME NEW next, NEW last, Enumerate("reader", next, last)
      PROVE  Moves(pc')
  BY <1>0, <1>7, ThreadMoves DEF Enumerate
<1>8. ASSUME NEW point, NEW next, CloseLocked("reader", point, next)
      PROVE  Moves(pc')
  <2>1. \A at : Moves([pc EXCEPT !["reader"] = at])
    BY <1>0, ThreadMoves
  <2>2. \/ \E at : pc' = [pc EXCEPT !["reader"] = at]
        \/ pc' = Released([pc EXCEPT !["reader"] = next])
    BY <1>8 DEF CloseLocked, Signal
  <2> QED
    BY <2>1, <2>2, ThreadMoves
<1>9. CASE Enumerate("writer", "write", "done")
  <2>1. pc["writer"] = "woken"
        /\ \/ pc' = [pc EXCEPT !["writer"] = "write"]
           \/ pc' = [pc EXCEPT !["writer"] = "done"]
    BY <1>9 DEF Enumerate
  <2> QED
    BY <2>1, ThreadMoves
<1>10. CASE WriterWakes
  <2>1. pc["writer"] = "idle"
        /\ \/ pc' = [pc EXCEPT !["writer"] = "write"]
           \/ pc' = [pc EXCEPT !["writer"] = "done"]
    BY <1>10 DEF WriterWakes
  <2> QED
    BY <2>1, ThreadMoves
<1>11. CASE CloseLocked("writer", "close", "done")
  <2>1. \/ pc' = [pc EXCEPT !["writer"] = "done"]
        \/ pc' = Released([pc EXCEPT !["writer"] = "done"])
        \/ /\ MarkClosing /\ pc["writer"] = "close"
           /\ \E at : pc' = [pc EXCEPT !["writer"] = at]
    BY <1>11 DEF CloseLocked, Signal
  <2>2. Moves([pc EXCEPT !["writer"] = "done"])
    BY ThreadMoves
  <2> QED
    BY <2>1, <2>2, ThreadMoves
<1> QED
  BY <1>2, <1>3, <1>4, <1>5, <1>6, <1>7, <1>8, <1>9, <1>10, <1>11
     DEF Next, reader_loop, writer_loop

KeptInv ==
    /\ OutTyped
    /\ pc["writer"] = "idle" => writing = <<>> \/ closing
    /\ AcceptedFramesKept

\* A step that leaves the frames on their way out alone, or closes.
LEMMA KeptStays ==
    ASSUME KeptInv, Moves(pc'), UNCHANGED <<accepted, written, writing>>,
           (closing' = TRUE /\ outbound' \in Seq(Nat)) \/ UNCHANGED <<outbound, closing>>
    PROVE  KeptInv'
  BY DEF KeptInv, OutTyped, AcceptedFramesKept, Moves

\* enqueue() takes a frame.
LEMMA KeptEnqueue ==
    ASSUME KeptInv, enqueue
    PROVE  KeptInv'
<1> DEFINE n == Len(accepted) + 1
<1>1. accepted \in Seq(Nat) /\ outbound \in Seq(Nat) /\ written \in Seq(Piece)
      /\ writing \in Seq(Piece)
  BY DEF KeptInv, OutTyped
<1>2. n \in Nat
  BY <1>1, LenProperties
<1>3. /\ accepted' = Append(accepted, n) /\ outbound' = Append(outbound, n)
      /\ UNCHANGED <<written, writing, closing, pc>>
  BY DEF enqueue
<1> HIDE DEF n
<1>4. accepted' \in Seq(Nat) /\ outbound' \in Seq(Nat)
  BY <1>1, <1>2, <1>3, AppendProperties
<1>5. ASSUME ~closing, pc["writer"] # "done"
      PROVE  PiecesOf(accepted') = written \o writing \o PiecesOf(outbound')
  <2>1. PiecesOf(accepted) = written \o writing \o PiecesOf(outbound)
    BY <1>5 DEF KeptInv, AcceptedFramesKept
  <2>2. PiecesOf(accepted') = PiecesOf(accepted) \o Pieces(n)
        /\ PiecesOf(outbound') = PiecesOf(outbound) \o Pieces(n)
    BY <1>1, <1>2, <1>3, PiecesAppend
  <2>3. written \o writing \in Seq(Piece) /\ PiecesOf(outbound) \in Seq(Piece)
        /\ Pieces(n) \in Seq(Piece)
    BY <1>1, <1>2, ConcatProperties, PiecesTyped, TwoPieces
  <2>4. (written \o writing \o PiecesOf(outbound)) \o Pieces(n)
          = (written \o writing) \o (PiecesOf(outbound) \o Pieces(n))
    BY <2>3, PiecesJoined
  <2> QED
    BY <2>1, <2>2, <2>4
<1> QED
  BY <1>3, <1>4, <1>5 DEF KeptInv, OutTyped, AcceptedFramesKept

\* The writer takes the first frame.
LEMMA KeptTaken ==
    ASSUME KeptInv, WriterWakes, Moves(pc')
    PROVE  KeptInv'
<1>1. accepted \in Seq(Nat) /\ outbound \in Seq(Nat) /\ written \in Seq(Piece)
  BY DEF KeptInv, OutTyped
<1>2. UNCHANGED <<accepted, written, closing>> /\ pc["writer"] = "idle"
  BY DEF WriterWakes
<1>3. CASE UNCHANGED <<writing, outbound>>
  BY <1>2, <1>3, KeptStays
<1>4. CASE ~closing /\ outbound # <<>> /\ TakeFirst /\ pc' = [pc EXCEPT !["writer"] = "write"]
  <2>1. writing = <<>>
    BY <1>2, <1>4 DEF KeptInv
  <2>2. pc["writer"] # "done"
    BY <1>2
  <2>3. PiecesOf(accepted) = written \o <<>> \o PiecesOf(outbound)
    BY <1>4, <2>1, <2>2 DEF KeptInv, AcceptedFramesKept
  <2>4. written \o <<>> = written
    BY <1>1, ConcatEmptySeq
  <2>5. Head(outbound) \in Nat /\ Tail(outbound) \in Seq(Nat)
    BY <1>1, <1>4, HeadTailProperties
  <2>6. PiecesOf(outbound) = writing' \o PiecesOf(outbound')
    BY <1>1, <1>4, PiecesHead DEF TakeFirst
  <2>7. writing' \in Seq(Piece) /\ outbound' \in Seq(Nat)
    BY <1>4, <2>5, TwoPieces DEF TakeFirst
  <2>8. (written \o writing') \o PiecesOf(outbound')
          = written \o (writing' \o PiecesOf(outbound'))
    BY <1>1, <2>7, PiecesTyped, PiecesJoined
  <2>9. AcceptedFramesKept'
    BY <1>2, <2>3, <2>4, <2>6, <2>8 DEF AcceptedFramesKept
  <2>10. pc'["writer"] # "idle"
    BY <1>4 DEF KeptInv, OutTyped, Thread
  <2> QED
    BY <1>1, <1>2, <2>7, <2>9, <2>10 DEF KeptInv, OutTyped, Moves
<1> QED
  BY <1>3, <1>4 DEF WriterWakes

\* The socket takes some pieces, or none.
LEMMA KeptWrite ==
    ASSUME KeptInv, Write
    PROVE  KeptInv'
<1>1. accepted \in Seq(Nat) /\ outbound \in Seq(Nat) /\ written \in Seq(Piece)
      /\ writing \in Seq(Piece) /\ DOMAIN pc = Thread /\ "writer" \in Thread
  BY DEF KeptInv, OutTyped, Thread
<1>2. UNCHANGED <<accepted, outbound, closing>> /\ pc["writer"] = "write"
  BY DEF Write, state
<1>3. CASE UNCHANGED <<written, writing>> /\ \E at : at # "idle"
                                              /\ pc' = [pc EXCEPT !["writer"] = at]
  <2>1. Moves(pc')
    BY <1>1, <1>2, <1>3, ThreadMoves
  <2> QED
    BY <1>2, <1>3, <2>1, KeptStays
<1>4. ASSUME NEW k \in 1..Len(writing),
             written' = written \o SubSeq(writing, 1, k), writing' = Rest(k),
             pc' = [pc EXCEPT !["writer"] = IF writing' = <<>> THEN "idle" ELSE "write"]
      PROVE  KeptInv'
  <2>1. /\ SubSeq(writing, 1, k) \in Seq(Piece)
        /\ SubSeq(writing, k + 1, Len(writing)) \in Seq(Piece)
        /\ SubSeq(writing, 1, k) \o SubSeq(writing, k + 1, Len(writing)) = writing
    BY <1>1, PiecesSplit
  <2>2. written' \o writing' = written \o writing
    <3>1. (written \o SubSeq(writing, 1, k)) \o SubSeq(writing, k + 1, Len(writing))
            = written \o (SubSeq(writing, 1, k) \o SubSeq(writing, k + 1, Len(writing)))
      BY <1>1, <2>1, PiecesJoined
    <3> QED
      BY <1>4, <2>1, <3>1 DEF Rest
  <2>3. written' \in Seq(Piece) /\ writing' \in Seq(Piece)
    BY <1>1, <1>4, <2>1, ConcatProperties DEF Rest
  <2>4. AcceptedFramesKept'
    BY <1>2, <2>2 DEF KeptInv, AcceptedFramesKept
  <2>5. DOMAIN pc' = Thread /\ (pc'["writer"] = "idle" => writing' = <<>>)
    BY <1>1, <1>4
  <2> QED
    BY <1>1, <1>2, <2>3, <2>4, <2>5 DEF KeptInv, OutTyped
<1> QED
  BY <1>3, <1>4 DEF Write, WaitForIo

\* A frame that enqueue() took is written, being written or queued, whole and in
\* the order in which frames were taken, until the session closes or the writer ends.
THEOREM AcceptedStayKept == Spec => []AcceptedFramesKept
<1>1. Init => KeptInv
  <2>1. ASSUME Init
        PROVE  KeptInv
    <3>1. accepted = <<>> /\ outbound = <<>> /\ written = <<>> /\ writing = <<>>
          /\ DOMAIN pc = Thread
      BY <2>1 DEF Init
    <3>2. \A S : <<>> \in Seq(S)
      BY EmptySeq
    <3>3. <<>> \o <<>> = <<>>
      BY <3>2, ConcatEmptySeq
    <3> QED
      BY <3>1, <3>2, <3>3, PiecesOfNone DEF KeptInv, OutTyped, AcceptedFramesKept
  <2> QED
    BY <2>1
<1>2. ASSUME KeptInv, [Next]_vars
      PROVE  KeptInv'
  <2>1. DOMAIN pc = Thread /\ outbound \in Seq(Nat) /\ \A S : <<>> \in Seq(S)
    BY <1>2, EmptySeq DEF KeptInv, OutTyped
  <2>2. CASE enqueue
    BY <1>2, <2>2, KeptEnqueue
  <2>3. CASE Write
    BY <1>2, <2>3, KeptWrite
  <2>4. ASSUME ~Write, MarkClosing, UNCHANGED <<accepted, written, writing>>
        PROVE  KeptInv'
    <3>1. DOMAIN pc' = Thread
      BY <1>2, <2>1, <2>4, WriterMoves DEF Moves
    <3>2. closing' = TRUE /\ outbound' \in Seq(Nat)
      BY <2>1, <2>4 DEF MarkClosing
    <3> QED
      BY <1>2, <2>4, <3>1, <3>2 DEF KeptInv, OutTyped, AcceptedFramesKept
  <2>5. CASE WriterWakes /\ Moves(pc')
    BY <1>2, <2>5, KeptTaken
  <2>6. CASE UNCHANGED <<accepted, written, writing, outbound, closing>> /\ Moves(pc')
    BY <1>2, <2>6, KeptStays
  <2>7. WriterWakes => pc["writer"] = "idle"
    BY DEF WriterWakes
  <2> QED
    BY <1>2, <2>1, <2>2, <2>3, <2>4, <2>5, <2>6, <2>7, OutSteps, WriterMoves
<1>3. KeptInv => AcceptedFramesKept
  BY DEF KeptInv
<1> QED
  BY <1>1, <1>2, <1>3, PTL DEF Spec

-----------------------------------------------------------------------------
(***************************************************************************)
(* Frames on their way in.                                                 *)
(*                                                                         *)
(* The decoder's buffer and the wire together hold the end of what the     *)
(* peer sent: every piece is followed by the next of its frame or of the   *)
(* stream, and the last one ends the last frame.  The frame of the first   *)
(* piece is due, behind all that were handled.  It is the first not yet    *)
(* handled, unless a rejected frame came before it.                        *)
(***************************************************************************)

Coming == buffer \o wire

Due == IF Coming = <<>> THEN Len(sent) + 1 ELSE Coming[1][1]

RejectedBefore == \E m \in 1..(Due - 1) : sent[m] = "bad"

\* Piece q comes next behind piece p.
Follows(p, q) ==
    IF p[2] = 1 THEN q[1] = p[1] /\ q[2] = 2 ELSE q[1] = p[1] + 1 /\ q[2] # 2

EndOfSent(s) ==
    \A i \in 1..Len(s) :
       /\ s[i][1] \in 1..Len(sent)
       /\ s[i][2] = 0 <=> sent[s[i][1]] = "bad"
       /\ i < Len(s) => Follows(s[i], s[i + 1])
       /\ i = Len(s) => s[i][1] = Len(sent) /\ s[i][2] # 1
       /\ \A j \in 1..Len(s) : i < j => /\ s[i][1] <= s[j][1]
                                        /\ s[i][2] # 1 => s[i][1] < s[j][1]

DeliveredInv ==
    /\ InTyped
    /\ EndOfSent(Coming)
    /\ \A i \in 1..Len(handled) : handled[i] \in 1..(Due - 1)
    /\ RejectedBefore \/ (Due = Len(handled) + 1 /\ (Coming # <<>> => Coming[1][2] # 2))
    /\ DeliveredInOrder

\* Pieces and their parts.
LEMMA PieceParts ==
    ASSUME NEW p \in Piece
    PROVE  p[1] \in Nat /\ p[2] \in {0, 1, 2}
  BY DEF Piece

\* What is coming is a sequence of pieces.
LEMMA ComingTyped ==
    ASSUME InTyped
    PROVE  /\ Coming \in Seq(Piece) /\ Len(Coming) \in Nat /\ DOMAIN Coming = 1..Len(Coming)
           /\ Coming = <<>> <=> Len(Coming) = 0
           /\ \A i \in 1..Len(Coming) : Coming[i][1] \in Nat /\ Coming[i][2] \in {0, 1, 2}
           /\ Len(sent) \in Nat /\ DOMAIN sent = 1..Len(sent)
           /\ Len(buffer) \in Nat /\ Len(buffer) <= Len(Coming)
           /\ \A i \in 1..Len(buffer) : Coming[i] = buffer[i]
<1>1. buffer \in Seq(Piece) /\ wire \in Seq(Piece) /\ sent \in Seq({"good", "bad"})
  BY DEF InTyped
<1>2. /\ Coming \in Seq(Piece) /\ Len(Coming) = Len(buffer) + Len(wire)
      /\ \A i \in 1..(Len(buffer) + Len(wire)) :
            Coming[i] = IF i <= Len(buffer) THEN buffer[i] ELSE wire[i - Len(buffer)]
  BY <1>1, ConcatProperties DEF Coming
<1>3. Len(buffer) \in Nat /\ Len(wire) \in Nat /\ Len(sent) \in Nat
      /\ DOMAIN sent = 1..Len(sent)
  BY <1>1, LenProperties
<1>4. Len(Coming) \in Nat /\ DOMAIN Coming = 1..Len(Coming)
  BY <1>2, LenProperties
<1>5. Coming = <<>> <=> Len(Coming) = 0
  BY <1>2, <1>4, EmptySeq
<1>6. \A i \in 1..Len(Coming) : Coming[i][1] \in Nat /\ Coming[i][2] \in {0, 1, 2}
  <2>1. \A i \in 1..Len(Coming) : Coming[i] \in Piece
    BY <1>2, ElementOfSeq
  <2> QED
    BY <2>1, PieceParts
<1>7. Len(buffer) <= Len(Coming) /\ \A i \in 1..Len(buffer) : Coming[i] = buffer[i]
  BY <1>2, <1>3
<1> QED
  BY <1>2, <1>3, <1>4, <1>5, <1>6, <1>7

\* The first k pieces are taken from what is coming.
LEMMA PiecesTaken ==
    ASSUME InTyped, InTyped', EndOfSent(Coming), sent' = sent,
           NEW k \in 1..Len(Coming), Len(Coming') = Len(Coming) - k,
           \A i \in 1..Len(Coming') : Coming'[i] = Coming[i + k]
    PROVE  /\ EndOfSent(Coming)'
           /\ Due' \in Nat /\ Due = Coming[1][1] /\ Due <= Due' /\ Due' <= Len(sent) + 1
           /\ Coming[1][2] # 1 => Due < Due'
           /\ Coming[k][2] # 1 => /\ Due' = Coming[k][1] + 1
                                  /\ Coming' # <<>> => Coming'[1][2] # 2
<1> DEFINE L == Len(Coming)
           M == Len(Coming')
<1>1. L \in Nat /\ M \in Nat /\ k \in Nat \ {0} /\ k <= L /\ M = L - k /\ Len(sent) \in Nat
      /\ (Coming' = <<>> <=> M = 0) /\ Coming # <<>>
  BY ComingTyped
<1>2. \A i \in 1..L : Coming[i][1] \in Nat /\ Coming[i][2] \in {0, 1, 2}
  BY ComingTyped
<1>3. \A i \in 1..L :
       /\ Coming[i][1] \in 1..Len(sent)
       /\ Coming[i][2] = 0 <=> sent[Coming[i][1]] = "bad"
       /\ i < L => Follows(Coming[i], Coming[i + 1])
       /\ i = L => Coming[i][1] = Len(sent) /\ Coming[i][2] # 1
       /\ \A j \in 1..L : i < j => /\ Coming[i][1] <= Coming[j][1]
                                   /\ Coming[i][2] # 1 => Coming[i][1] < Coming[j][1]
  BY DEF EndOfSent
<1>4. \A i \in 1..M : Coming'[i] = Coming[i + k]
  OBVIOUS
<1>5. Due = Coming[1][1] /\ Due' = IF M = 0 THEN Len(sent) + 1 ELSE Coming'[1][1]
  BY <1>1 DEF Due
<1> HIDE DEF L, M
<1>6. \A i \in 1..M : i + k \in 1..L /\ (i < M <=> i + k < L) /\ (i = M <=> i + k = L)
  BY <1>1
<1>7. \A i \in 1..M :
       /\ Coming'[i][1] \in 1..Len(sent)
       /\ Coming'[i][2] = 0 <=> sent[Coming'[i][1]] = "bad"
       /\ i = M => Coming'[i][1] = Len(sent) /\ Coming'[i][2] # 1
  BY <1>3, <1>4, <1>6
<1>8. ASSUME NEW i \in 1..M, i < M
      PROVE  Follows(Coming'[i], Coming'[i + 1])
  <2>1. i + 1 \in 1..M /\ i + k \in 1..L /\ i + k < L /\ i + 1 + k = i + k + 1
    BY <1>1, <1>6, <1>8
  <2>2. Coming'[i] = Coming[i + k] /\ Coming'[i + 1] = Coming[i + k + 1]
    BY <1>4, <2>1
  <2> QED
    BY <1>3, <2>1, <2>2
<1>9. ASSUME NEW i \in 1..M, NEW j \in 1..M, i < j
      PROVE  /\ Coming'[i][1] <= Coming'[j][1]
             /\ Coming'[i][2] # 1 => Coming'[i][1] < Coming'[j][1]
  <2>1. i + k \in 1..L /\ j + k \in 1..L /\ i + k < j + k
    BY <1>1, <1>6, <1>9
  <2> QED
    BY <1>3, <1>4, <2>1
<1>10. EndOfSent(Coming)'
  BY <1>7, <1>8, <1>9 DEF EndOfSent, Follows, M
<1>11. CASE M = 0
  <2>1. k = L /\ Coming[k][1] = Len(sent)
    BY <1>1, <1>3, <1>11
  <2>2. Due' = Len(sent) + 1
    BY <1>5, <1>11
  <2>3. 1 \in 1..L /\ Coming[1][1] \in 1..Len(sent)
    BY <1>1, <1>3
  <2> QED
    BY <1>1, <1>5, <1>10, <1>11, <2>1, <2>2, <2>3
<1>12. CASE M # 0
  <2>1. 1 \in 1..M /\ 1 + k \in 1..L /\ 1 \in 1..L /\ k \in 1..L /\ 1 < 1 + k /\ k < L
        /\ 1 + k = k + 1
    BY <1>1, <1>12
  <2>2. Coming'[1] = Coming[k + 1] /\ Due' = Coming[k + 1][1]
    BY <1>4, <1>5, <1>12, <2>1
  <2>3. /\ Coming[1][1] <= Coming[k + 1][1] /\ Coming[k + 1][1] \in 1..Len(sent)
        /\ Coming[1][2] # 1 => Coming[1][1] < Coming[k + 1][1]
    BY <1>3, <2>1
  <2>4. Coming[k][2] # 1 => /\ Coming[k + 1][1] = Coming[k][1] + 1
                            /\ Coming[k + 1][2] # 2
    BY <1>3, <2>1 DEF Follows
  <2> QED
    BY <1>1, <1>5, <1>10, <2>2, <2>3, <2>4
<1> QED
  BY <1>11, <1>12

\* The due frame is one that the peer sent, or the next.
LEMMA DueTyped ==
    ASSUME InTyped, EndOfSent(Coming)
    PROVE  Due \in 1..(Len(sent) + 1)
<1>1. Len(sent) \in Nat /\ Len(Coming) \in Nat /\ (Coming = <<>> <=> Len(Coming) = 0)
  BY ComingTyped
<1>2. CASE Coming = <<>>
  BY <1>1, <1>2 DEF Due
<1>3. CASE Coming # <<>>
  <2>1. 1 \in 1..Len(Coming)
    BY <1>1, <1>3
  <2>2. Coming[1][1] \in 1..Len(sent)
    BY <2>1 DEF EndOfSent
  <2> QED
    BY <1>1, <1>3, <2>2 DEF Due
<1> QED
  BY <1>2, <1>3

\* Frames that come later change nothing for those that were handled.
LEMMA InOrderStays ==
    ASSUME InTyped, DeliveredInOrder, handled' = handled,
           \A i \in 1..Len(handled) : handled[i] \in 1..Len(sent),
           \A m \in 1..Len(sent) : sent'[m] = sent[m]
    PROVE  DeliveredInOrder'
<1>1. DOMAIN handled = 1..Len(handled) /\ Len(sent) \in Nat
  BY LenProperties DEF InTyped
<1>2. ASSUME NEW i \in DOMAIN handled
      PROVE  /\ sent'[handled[i]] = "good"
             /\ i > 1 => handled[i - 1] < handled[i]
             /\ (\A n \in 1..handled[i] : sent'[n] = "good") => handled[i] = i
  <2>1. handled[i] \in 1..Len(sent)
    BY <1>1
  <2>2. \A n \in 1..handled[i] : n \in 1..Len(sent)
    BY <1>1, <2>1
  <2>3. \A n \in 1..handled[i] : sent'[n] = sent[n]
    BY <2>2
  <2>4. sent'[handled[i]] = sent[handled[i]]
    BY <2>1
  <2> QED
    BY <2>3, <2>4 DEF DeliveredInOrder
<1> QED
  BY <1>2 DEF DeliveredInOrder

\* The peer sends a frame: it comes last, and what is due stays due.
LEMMA SendingKeepsOrder ==
    ASSUME DeliveredInv, NEW kind \in {"good", "bad"}, PeerSends(kind)
    PROVE  DeliveredInv'
<1> DEFINE n == Len(sent) + 1
           P == IF kind = "good" THEN Pieces(n) ELSE <<<<n, 0>>>>
           L == Len(Coming)
           M == Len(P)
<1>1. InTyped /\ EndOfSent(Coming) /\ DeliveredInOrder
      /\ (\A i \in 1..Len(handled) : handled[i] \in 1..(Due - 1))
  BY DEF DeliveredInv
<1>2. /\ L \in Nat /\ Len(sent) \in Nat /\ n \in Nat /\ Coming \in Seq(Piece)
      /\ (Coming = <<>> <=> L = 0)
      /\ \A i \in 1..L : Coming[i][1] \in Nat /\ Coming[i][2] \in {0, 1, 2}
  BY <1>1, ComingTyped
<1>3. /\ P \in Seq(Piece) /\ M \in {1, 2}
      /\ kind = "good" => M = 2 /\ P[1] = <<n, 1>> /\ P[2] = <<n, 2>>
      /\ kind = "bad" => M = 1 /\ P[1] = <<n, 0>>
  <2>1. CASE kind = "good"
    BY <1>2, <2>1, TwoPieces
  <2>2. CASE kind = "bad"
    <3>1. <<n, 0>> \in Piece
      BY <1>2 DEF Piece
    <3> QED
      BY <2>2, <3>1
  <2> QED
    BY <2>1, <2>2
<1>4. /\ sent' = Append(sent, kind) /\ wire' = wire \o P
      /\ UNCHANGED <<buffer, handled>>
  BY DEF PeerSends
<1> HIDE DEF n, P, L, M
<1>5. /\ sent' \in Seq({"good", "bad"}) /\ Len(sent') = n /\ sent'[n] = kind
      /\ \A m \in 1..Len(sent) : sent'[m] = sent[m]
  BY <1>1, <1>4, AppendProperties DEF InTyped, n
<1>6. wire' \in Seq(Piece) /\ Coming' = Coming \o P
  <2>1. buffer \in Seq(Piece) /\ wire \in Seq(Piece)
    BY <1>1 DEF InTyped
  <2>2. wire \o P \in Seq(Piece)
    BY <1>3, <2>1, ConcatProperties
  <2>3. (buffer \o wire) \o P = buffer \o (wire \o P)
    BY <1>3, <2>1, PiecesJoined
  <2> QED
    BY <1>4, <2>2, <2>3 DEF Coming
<1>7. InTyped'
  BY <1>1, <1>4, <1>5, <1>6 DEF InTyped
<1>8. /\ Len(Coming') = L + M
      /\ \A i \in 1..(L + M) : Coming'[i] = IF i <= L THEN Coming[i] ELSE P[i - L]
  BY <1>2, <1>3, <1>6, ConcatProperties DEF L, M
<1>9. /\ \A i \in 1..L : Coming'[i] = Coming[i]
      /\ Coming'[L + 1] = P[1] /\ (M = 2 => Coming'[L + 2] = P[2])
  <2>1. \A i \in 1..L : i \in 1..(L + M) /\ i <= L
    BY <1>2, <1>3
  <2>2. L + 1 \in 1..(L + M) /\ ~(L + 1 <= L) /\ (L + 1) - L = 1
    BY <1>2, <1>3
  <2>3. M = 2 => L + 2 \in 1..(L + M) /\ ~(L + 2 <= L) /\ (L + 2) - L = 2
    BY <1>2, <1>3
  <2>4. \A i \in 1..L : Coming'[i] = Coming[i]
    BY <1>8, <2>1
  <2>5. Coming'[L + 1] = P[(L + 1) - L]
    BY <1>8, <2>2
  <2>6. M = 2 => Coming'[L + 2] = P[(L + 2) - L]
    BY <1>8, <2>3
  <2>7. P[(L + 1) - L] = P[1] /\ (M = 2 => P[(L + 2) - L] = P[2])
    BY <2>2, <2>3
  <2> QED
    BY <2>4, <2>5, <2>6, <2>7
<1>10. \A i \in 1..(L + M) : i \in 1..L \/ i = L + 1 \/ (M = 2 /\ i = L + 2)
  BY <1>2, <1>3
<1>11. \A i \in 1..L :
       /\ Coming[i][1] \in 1..Len(sent)
       /\ Coming[i][2] = 0 <=> sent[Coming[i][1]] = "bad"
       /\ i < L => Follows(Coming[i], Coming[i + 1])
       /\ i = L => Coming[i][1] = Len(sent) /\ Coming[i][2] # 1
       /\ \A j \in 1..L : i < j => /\ Coming[i][1] <= Coming[j][1]
                                   /\ Coming[i][2] # 1 => Coming[i][1] < Coming[j][1]
  BY <1>1 DEF EndOfSent, L
<1>12. /\ Coming'[L + 1][1] = n /\ Coming'[L + 1][2] = (IF kind = "good" THEN 1 ELSE 0)
       /\ M = 2 => kind = "good" /\ Coming'[L + 2][1] = n /\ Coming'[L + 2][2] = 2
       /\ M = 1 => kind = "bad"
  BY <1>3, <1>9
<1>13. EndOfSent(Coming)'
  <2>1. ASSUME NEW i \in 1..L
        PROVE  /\ Coming'[i][1] \in 1..n
               /\ Coming'[i][2] = 0 <=> sent'[Coming'[i][1]] = "bad"
               /\ Follows(Coming'[i], Coming'[i + 1])
               /\ \A j \in 1..(L + M) :
                     i < j => /\ Coming'[i][1] <= Coming'[j][1]
                              /\ Coming'[i][2] # 1 => Coming'[i][1] < Coming'[j][1]
    <3>1. Coming'[i] = Coming[i] /\ Coming[i][1] \in 1..Len(sent)
      BY <1>9, <1>11
    <3>2. Coming[i][1] \in 1..n /\ Coming[i][1] < n
      BY <1>2, <3>1 DEF n
    <3>3. Coming[i][2] = 0 <=> sent'[Coming[i][1]] = "bad"
      BY <1>5, <1>11, <3>1
    <3>4. Follows(Coming'[i], Coming'[i + 1])
      <4>1. CASE i < L
        <5>1. i + 1 \in 1..L
          BY <1>2, <4>1
        <5> QED
          BY <1>9, <1>11, <4>1, <5>1
      <4>2. CASE i = L
        <5>1. Coming[i][1] = Len(sent) /\ Coming[i][2] # 1
          BY <1>11, <4>2
        <5> QED
          BY <1>12, <3>1, <4>2, <5>1 DEF Follows, n
      <4> QED
        BY <1>2, <4>1, <4>2
    <3>5. ASSUME NEW j \in 1..(L + M), i < j
          PROVE  /\ Coming'[i][1] <= Coming'[j][1]
                 /\ Coming'[i][2] # 1 => Coming'[i][1] < Coming'[j][1]
      <4>1. CASE j \in 1..L
        BY <1>9, <1>11, <3>5, <4>1
      <4>2. CASE j \notin 1..L
        <5>1. Coming'[j][1] = n
          BY <1>10, <1>12, <4>2
        <5> QED
          BY <1>2, <3>1, <3>2, <5>1
      <4> QED
        BY <4>1, <4>2
    <3> QED
      BY <3>1, <3>2, <3>3, <3>4, <3>5
  <2>2. ASSUME NEW i \in {L + 1, L + 2}, i \in 1..(L + M)
        PROVE  /\ Coming'[i][1] \in 1..n
               /\ Coming'[i][2] = 0 <=> sent'[Coming'[i][1]] = "bad"
               /\ i < L + M => Follows(Coming'[i], Coming'[i + 1])
               /\ i = L + M => Coming'[i][1] = n /\ Coming'[i][2] # 1
               /\ \A j \in 1..(L + M) :
                     i < j => /\ Coming'[i][1] <= Coming'[j][1]
                              /\ Coming'[i][2] # 1 => Coming'[i][1] < Coming'[j][1]
    <3>1. i = L + 1 \/ (M = 2 /\ i = L + 2)
      BY <1>2, <1>3, <2>2
    <3>2. Coming'[i][1] = n /\ n \in 1..n /\ sent'[n] = kind
      BY <1>2, <1>5, <1>12, <3>1 DEF n
    <3>3. Coming'[i][2] = 0 <=> kind = "bad"
      BY <1>12, <3>1
    <3>4. ASSUME NEW j \in 1..(L + M), i < j
          PROVE  j = i + 1 /\ i = L + 1 /\ M = 2 /\ Coming'[j][1] = n /\ Coming'[i][2] = 1
      <4>1. j = L + 2 /\ i = L + 1 /\ M = 2
        BY <1>2, <1>3, <3>1, <3>4
      <4> QED
        BY <1>2, <1>12, <4>1
    <3>5. ASSUME i < L + M
          PROVE  Follows(Coming'[i], Coming'[i + 1])
      <4>1. i + 1 \in 1..(L + M) /\ i < i + 1
        BY <1>2, <1>3, <3>1, <3>5
      <4>2. i + 1 = L + 2 /\ M = 2 /\ Coming'[i][2] = 1
        BY <1>2, <3>4, <4>1
      <4> QED
        BY <1>12, <3>2, <4>2 DEF Follows
    <3>6. ASSUME i = L + M
          PROVE  Coming'[i][2] # 1
      <4>1. CASE M = 1
        BY <1>12, <3>6, <4>1
      <4>2. CASE M = 2
        BY <1>12, <3>6, <4>2
      <4> QED
        BY <1>3, <4>1, <4>2
    <3>7. n <= n
      BY <1>2
    <3> QED
      BY <3>2, <3>3, <3>4, <3>5, <3>6, <3>7
  <2>3. \A i \in 1..L : i # L + M /\ i < L + M
    BY <1>2, <1>3
  <2>4. \A i \in 1..(L + M) : i \in 1..L \/ i \in {L + 1, L + 2}
    BY <1>10
  <2>5. Len(sent') = n /\ Len(Coming') = L + M
    BY <1>5, <1>8
  <2> DEFINE Part(i) ==
               /\ Coming'[i][1] \in 1..n
               /\ Coming'[i][2] = 0 <=> sent'[Coming'[i][1]] = "bad"
               /\ i < L + M => Follows(Coming'[i], Coming'[i + 1])
               /\ i = L + M => Coming'[i][1] = n /\ Coming'[i][2] # 1
               /\ \A j \in 1..(L + M) :
                     i < j => /\ Coming'[i][1] <= Coming'[j][1]
                              /\ Coming'[i][2] # 1 => Coming'[i][1] < Coming'[j][1]
  <2>6. \A i \in 1..L : Part(i)
    BY <2>1, <2>3
  <2>7. \A i \in 1..(L + M) : Part(i)
    BY <2>2, <2>4, <2>6
  <2> QED
    BY <2>5, <2>7 DEF EndOfSent, Follows
<1>14. Due' = Due /\ (Coming' # <<>> => Coming'[1][2] = IF L = 0 THEN IF kind = "good" THEN 1 ELSE 0
                                                        ELSE Coming[1][2])
  <2>1. Coming' # <<>>
    <3>1. Len(Coming') # 0 /\ Coming' \in Seq(Piece)
      BY <1>2, <1>3, <1>6, <1>8, ConcatProperties
    <3> QED
      BY <3>1, EmptySeq
  <2>2. CASE L = 0
    BY <1>2, <1>12, <2>1, <2>2 DEF Due, n
  <2>3. CASE L # 0
    <3>1. 1 \in 1..L
      BY <1>2, <2>3
    <3> QED
      BY <1>2, <1>9, <2>1, <2>3, <3>1 DEF Due
  <2> QED
    BY <2>2, <2>3
<1>15. Due \in 1..(Len(sent) + 1) /\ \A i \in 1..Len(handled) : handled[i] \in 1..Len(sent)
  <2>1. Due \in 1..(Len(sent) + 1)
    BY <1>1, DueTyped
  <2>2. \A h \in 1..(Due - 1) : h \in 1..Len(sent)
    BY <1>2, <2>1
  <2> QED
    BY <1>1, <2>1, <2>2
<1>16. RejectedBefore => RejectedBefore'
  <2>1. \A m \in 1..(Due - 1) : m \in 1..Len(sent)
    BY <1>2, <1>15
  <2> QED
    BY <1>5, <1>14, <2>1 DEF RejectedBefore
<1>17. ASSUME ~RejectedBefore
       PROVE  Due' = Len(handled') + 1 /\ (Coming' # <<>> => Coming'[1][2] # 2)
  <2>1. Due = Len(handled) + 1 /\ (Coming # <<>> => Coming[1][2] # 2)
    BY <1>17 DEF DeliveredInv
  <2> QED
    BY <1>2, <1>4, <1>14, <2>1
<1>18. DeliveredInOrder'
  BY <1>1, <1>4, <1>5, <1>15, InOrderStays
<1> QED
  BY <1>1, <1>4, <1>7, <1>13, <1>14, <1>16, <1>17, <1>18 DEF DeliveredInv

\* A read moves pieces from the wire to the buffer, and what is coming stays the same.
LEMMA ReadingKeepsOrder ==
    ASSUME DeliveredInv, ReadData
    PROVE  DeliveredInv'
<1>1. buffer \in Seq(Piece) /\ wire \in Seq(Piece) /\ InTyped
  BY DEF DeliveredInv, InTyped
<1>2. PICK k \in 1..Len(wire) : /\ buffer' = buffer \o SubSeq(wire, 1, k)
                                /\ wire' = SubSeq(wire, k + 1, Len(wire))
  BY DEF ReadData
<1>3. UNCHANGED <<sent, handled>>
  BY DEF ReadData
<1>4. /\ SubSeq(wire, 1, k) \in Seq(Piece) /\ SubSeq(wire, k + 1, Len(wire)) \in Seq(Piece)
      /\ SubSeq(wire, 1, k) \o SubSeq(wire, k + 1, Len(wire)) = wire
  BY <1>1, PiecesSplit
<1>5. Coming' = Coming
  <2>1. (buffer \o SubSeq(wire, 1, k)) \o SubSeq(wire, k + 1, Len(wire))
          = buffer \o (SubSeq(wire, 1, k) \o SubSeq(wire, k + 1, Len(wire)))
    BY <1>1, <1>4, PiecesJoined
  <2> QED
    BY <1>2, <1>4, <2>1 DEF Coming
<1>6. InTyped'
  <2>1. buffer' \in Seq(Piece) /\ wire' \in Seq(Piece)
    BY <1>1, <1>2, <1>4, ConcatProperties
  <2> QED
    BY <1>1, <1>3, <2>1 DEF InTyped
<1>7. Due' = Due /\ RejectedBefore' = RejectedBefore /\ EndOfSent(Coming)' = EndOfSent(Coming)
  BY <1>3, <1>5 DEF Due, RejectedBefore, EndOfSent
<1>8. DeliveredInOrder' = DeliveredInOrder
  BY <1>3 DEF DeliveredInOrder
<1> QED
  BY <1>3, <1>5, <1>6, <1>7, <1>8 DEF DeliveredInv

\* The decoder takes pieces from the front of its buffer.
LEMMA BufferTaken ==
    ASSUME InTyped, NEW k \in 1..Len(buffer), buffer' = SubSeq(buffer, k + 1, Len(buffer)),
           UNCHANGED <<sent, wire>>, handled' \in Seq(Nat)
    PROVE  /\ InTyped' /\ k \in 1..Len(Coming) /\ Len(Coming') = Len(Coming) - k
           /\ \A i \in 1..Len(Coming') : Coming'[i] = Coming[i + k]
<1>1. buffer \in Seq(Piece) /\ wire \in Seq(Piece)
  BY DEF InTyped
<1>2. Len(buffer) \in Nat /\ Len(wire) \in Nat
  BY <1>1, LenProperties
<1>3. /\ buffer' \in Seq(Piece) /\ Len(buffer') = Len(buffer) - k
      /\ \A i \in 1..(Len(buffer) - k) : buffer'[i] = buffer[i + k]
  BY <1>1, PiecesSplit
<1>4. /\ Len(Coming) = Len(buffer) + Len(wire)
      /\ \A i \in 1..(Len(buffer) + Len(wire)) :
            Coming[i] = IF i <= Len(buffer) THEN buffer[i] ELSE wire[i - Len(buffer)]
  BY <1>1, ConcatProperties DEF Coming
<1>5. /\ Len(Coming') = Len(buffer') + Len(wire)
      /\ \A i \in 1..(Len(buffer') + Len(wire)) :
            Coming'[i] = IF i <= Len(buffer') THEN buffer'[i] ELSE wire[i - Len(buffer')]
  BY <1>1, <1>3, ConcatProperties DEF Coming
<1>6. InTyped'
  BY <1>3 DEF InTyped
<1>7. k \in 1..Len(Coming) /\ Len(Coming') = Len(Coming) - k
  BY <1>2, <1>3, <1>4, <1>5
<1>8. ASSUME NEW i \in 1..Len(Coming')
      PROVE  Coming'[i] = Coming[i + k]
  <2>1. i \in 1..(Len(buffer') + Len(wire)) /\ i + k \in 1..(Len(buffer) + Len(wire))
    BY <1>2, <1>3, <1>5
  <2>2. CASE i <= Len(buffer')
    <3>1. i + k <= Len(buffer) /\ i \in 1..(Len(buffer) - k)
      BY <1>2, <1>3, <2>2
    <3> QED
      BY <1>3, <1>4, <1>5, <2>1, <2>2, <3>1
  <2>3. CASE ~(i <= Len(buffer'))
    <3>1. i \in Nat /\ k \in Nat
      BY <2>1
    <3>2. Len(buffer') = Len(buffer) - k
      BY <1>3
    <3>3. ~(i + k <= Len(buffer)) /\ (i + k) - Len(buffer) = i - Len(buffer')
      <4> DEFINE l == Len(buffer)
                 m == Len(buffer')
      <4>1. l \in Nat /\ m = l - k /\ ~(i <= m)
        BY <1>2, <2>3, <3>2
      <4> HIDE DEF l, m
      <4>2. ~(i + k <= l) /\ (i + k) - l = i - m
        BY <3>1, <4>1
      <4> QED
        BY <4>2 DEF l, m
    <3>4. Coming'[i] = wire[i - Len(buffer')]
      BY <1>5, <2>1, <2>3
    <3>5. Coming[i + k] = wire[(i + k) - Len(buffer)]
      BY <1>4, <2>1, <3>3
    <3> QED
      BY <3>3, <3>4, <3>5
  <2> QED
    BY <2>2, <2>3
<1> QED
  BY <1>6, <1>7, <1>8

\* The decoder hands on a whole frame: it was due, and the next one is due now.
LEMMA HandingKeepsOrder ==
    ASSUME DeliveredInv, Len(buffer) >= 2, buffer[1][2] = 1,
           buffer' = SubSeq(buffer, 3, Len(buffer)),
           handled' = Append(handled, buffer[1][1]), UNCHANGED <<sent, wire>>
    PROVE  DeliveredInv'
<1> DEFINE n == buffer[1][1]
<1>1. /\ InTyped /\ EndOfSent(Coming) /\ DeliveredInOrder
      /\ \A i \in 1..Len(handled) : handled[i] \in 1..(Due - 1)
  BY DEF DeliveredInv
<1>2. /\ Len(buffer) \in Nat /\ Len(Coming) \in Nat /\ Len(buffer) <= Len(Coming)
      /\ Len(sent) \in Nat /\ handled \in Seq(Nat) /\ Len(handled) \in Nat
      /\ DOMAIN handled = 1..Len(handled) /\ DOMAIN sent = 1..Len(sent)
  BY <1>1, ComingTyped, LenProperties DEF InTyped
<1>3. 2 \in 1..Len(buffer) /\ 2 \in 1..Len(Coming) /\ 1 \in 1..Len(Coming) /\ 1 \in 1..Len(buffer)
      /\ 1 < Len(Coming) /\ 2 + 1 = 3 /\ 1 + 1 = 2
  BY <1>2
<1>4. Coming[1] = buffer[1] /\ n \in Nat
  <2>1. /\ \A i \in 1..Len(buffer) : Coming[i] = buffer[i]
        /\ \A i \in 1..Len(Coming) : Coming[i][1] \in Nat
    BY <1>1, ComingTyped
  <2> QED
    BY <1>3, <2>1
<1>5. /\ Coming[1][1] = n /\ Coming[1][2] = 1 /\ n \in 1..Len(sent) /\ sent[n] # "bad"
      /\ Coming[2][1] = n /\ Coming[2][2] = 2
  <2>1. /\ Coming[1][1] \in 1..Len(sent)
        /\ Coming[1][2] = 0 <=> sent[Coming[1][1]] = "bad"
        /\ Follows(Coming[1], Coming[1 + 1])
    BY <1>1, <1>3 DEF EndOfSent
  <2> QED
    BY <1>3, <1>4, <2>1 DEF Follows
<1> HIDE DEF n
<1>6. handled' = Append(handled, n)
  BY DEF n
<1>7. /\ handled' \in Seq(Nat) /\ Len(handled') = Len(handled) + 1
      /\ handled'[Len(handled) + 1] = n
      /\ \A i \in 1..Len(handled) : handled'[i] = handled[i]
  BY <1>2, <1>4, <1>6, AppendProperties
<1>8. /\ InTyped' /\ Len(Coming') = Len(Coming) - 2
      /\ \A i \in 1..Len(Coming') : Coming'[i] = Coming[i + 2]
  <2>1. buffer' = SubSeq(buffer, 2 + 1, Len(buffer))
    BY <1>3
  <2> QED
    BY <1>1, <1>3, <1>7, <2>1, BufferTaken
<1>9. /\ EndOfSent(Coming)' /\ Due = n /\ Due' = n + 1
      /\ Coming' # <<>> => Coming'[1][2] # 2
  <2>1. /\ EndOfSent(Coming)' /\ Due = Coming[1][1]
        /\ Coming[2][2] # 1 => /\ Due' = Coming[2][1] + 1
                               /\ Coming' # <<>> => Coming'[1][2] # 2
    BY <1>1, <1>3, <1>8, PiecesTaken
  <2> QED
    BY <1>5, <2>1
<1>10. sent[n] = "good"
  <2>1. sent[n] \in {"good", "bad"}
    BY <1>1, <1>5, ElementOfSeq DEF InTyped
  <2> QED
    BY <1>5, <2>1
<1>11. \A i \in 1..(Len(handled) + 1) : i \in 1..Len(handled) \/ i = Len(handled) + 1
  BY <1>2
<1>12. /\ \A h \in 1..(Due - 1) : h \in 1..(Due' - 1) /\ h < n
       /\ n \in 1..(Due' - 1)
  <2>1. /\ \A h \in 1..(n - 1) : h \in 1..(n + 1 - 1) /\ h < n
        /\ n \in 1..(n + 1 - 1)
    BY <1>2, <1>5
  <2>2. Due = n /\ Due' = n + 1
    BY <1>9
  <2> QED
    BY <2>1, <2>2
<1>13. \A i \in 1..Len(handled') : handled'[i] \in 1..(Due' - 1)
  <2>1. \A i \in 1..Len(handled) : handled'[i] \in 1..(Due' - 1)
    BY <1>1, <1>7, <1>12
  <2>2. handled'[Len(handled) + 1] \in 1..(Due' - 1)
    BY <1>7, <1>12
  <2> QED
    BY <1>7, <1>11, <2>1, <2>2
<1>14. RejectedBefore => RejectedBefore'
  BY <1>12 DEF RejectedBefore
<1>15. ~RejectedBefore => n = Len(handled) + 1 /\ Due' = Len(handled') + 1
  BY <1>7, <1>9 DEF DeliveredInv
<1>16. DeliveredInOrder'
  <2>1. DOMAIN handled' = 1..(Len(handled) + 1)
    BY <1>7, LenProperties
  <2>2. ASSUME NEW i \in 1..Len(handled)
        PROVE  /\ sent'[handled'[i]] = "good"
               /\ i > 1 => handled'[i - 1] < handled'[i]
               /\ (\A m \in 1..handled'[i] : sent'[m] = "good") => handled'[i] = i
    <3>1. i > 1 => i - 1 \in 1..Len(handled)
      BY <1>2
    <3>2. handled'[i] = handled[i] /\ (i > 1 => handled'[i - 1] = handled[i - 1])
      BY <1>7, <3>1
    <3>3. /\ sent[handled[i]] = "good"
          /\ i > 1 => handled[i - 1] < handled[i]
          /\ (\A m \in 1..handled[i] : sent[m] = "good") => handled[i] = i
      BY <1>1, <1>2 DEF DeliveredInOrder
    <3> QED
      BY <3>2, <3>3
  <2>3. ASSUME NEW i, i = Len(handled) + 1
        PROVE  /\ sent'[handled'[i]] = "good"
               /\ i > 1 => handled'[i - 1] < handled'[i]
               /\ (\A m \in 1..handled'[i] : sent'[m] = "good") => handled'[i] = i
    <3>1. handled'[i] = n /\ sent'[n] = "good"
      BY <1>7, <1>10, <2>3
    <3>2. ASSUME i > 1
          PROVE  handled'[i - 1] < n
      <4>1. i - 1 \in 1..Len(handled)
        BY <1>2, <2>3, <3>2
      <4> QED
        BY <1>1, <1>7, <1>12, <4>1
    <3>3. ASSUME \A m \in 1..n : sent[m] = "good"
          PROVE  n = i
      <4>1. \A m \in 1..(n - 1) : m \in 1..n
        BY <1>4
      <4>2. Due - 1 = n - 1
        BY <1>9
      <4>3. ~RejectedBefore
        BY <3>3, <4>1, <4>2 DEF RejectedBefore
      <4> QED
        BY <1>15, <2>3, <4>3
    <3> QED
      BY <3>1, <3>2, <3>3
  <2> QED
    BY <1>11, <2>1, <2>2, <2>3 DEF DeliveredInOrder
<1> QED
  BY <1>8, <1>9, <1>13, <1>14, <1>15, <1>16 DEF DeliveredInv

\* A rejected frame empties the buffer: it was due itself, or one before it was rejected.
LEMMA RejectingKeepsOrder ==
    ASSUME DeliveredInv, buffer # <<>>, buffer[1][2] # 1, buffer' = <<>>,
           UNCHANGED <<sent, wire, handled>>
    PROVE  DeliveredInv'
<1> DEFINE k == Len(buffer)
<1>1. /\ InTyped /\ EndOfSent(Coming) /\ DeliveredInOrder
      /\ \A i \in 1..Len(handled) : handled[i] \in 1..(Due - 1)
  BY DEF DeliveredInv
<1>2. buffer \in Seq(Piece) /\ handled \in Seq(Nat) /\ k \in Nat \ {0} /\ k \in 1..Len(buffer)
  <2>1. buffer \in Seq(Piece) /\ handled \in Seq(Nat)
    BY <1>1 DEF InTyped
  <2>2. Len(buffer) \in Nat /\ Len(buffer) # 0
    BY <2>1, EmptySeq, LenProperties
  <2> QED
    BY <2>1, <2>2
<1>3. buffer' = SubSeq(buffer, k + 1, Len(buffer))
  <2>1. k + 1 \in Int /\ k \in Int /\ k < k + 1
    BY <1>2
  <2>2. SubSeq(buffer, k + 1, k) = <<>>
    BY <1>2, <2>1, SubSeqEmpty
  <2> QED
    BY <2>2
<1> HIDE DEF k
<1>4. /\ InTyped' /\ k \in 1..Len(Coming) /\ Len(Coming') = Len(Coming) - k
      /\ \A i \in 1..Len(Coming') : Coming'[i] = Coming[i + k]
  BY <1>1, <1>2, <1>3, BufferTaken
<1>5. Coming[1] = buffer[1] /\ 1 \in 1..Len(Coming) /\ Coming # <<>>
      /\ Coming[1][2] \in {0, 1, 2} /\ Len(sent) \in Nat
  <2>1. 1 \in 1..Len(buffer)
    BY <1>2
  <2>2. /\ Len(buffer) \in Nat /\ Len(buffer) <= Len(Coming) /\ Len(Coming) \in Nat
        /\ \A i \in 1..Len(buffer) : Coming[i] = buffer[i]
        /\ (Coming = <<>> <=> Len(Coming) = 0) /\ Len(sent) \in Nat
        /\ \A i \in 1..Len(Coming) : Coming[i][2] \in {0, 1, 2}
    BY <1>1, ComingTyped
  <2>3. 1 \in 1..Len(Coming) /\ Len(Coming) # 0
    BY <2>1, <2>2
  <2> QED
    BY <2>1, <2>2, <2>3
<1>6. /\ EndOfSent(Coming)' /\ Due' \in Nat /\ Due = Coming[1][1] /\ Due < Due'
  BY <1>1, <1>4, <1>5, PiecesTaken
<1>7. /\ Due \in 1..Len(sent)
      /\ Coming[1][2] = 0 <=> sent[Due] = "bad"
  BY <1>1, <1>5, <1>6 DEF EndOfSent
<1>8. (\A h \in 1..(Due - 1) : h \in 1..(Due' - 1)) /\ Due \in 1..(Due' - 1)
  <2> DEFINE d == Due
             e == Due'
  <2>1. d \in Nat \ {0} /\ e \in Nat /\ d < e
    BY <1>5, <1>6, <1>7
  <2> HIDE DEF d, e
  <2>2. (\A h \in 1..(d - 1) : h \in 1..(e - 1)) /\ d \in 1..(e - 1)
    BY <2>1
  <2> QED
    BY <2>2 DEF d, e
<1>9. RejectedBefore'
  <2>1. CASE RejectedBefore
    BY <1>8, <2>1 DEF RejectedBefore
  <2>2. CASE ~RejectedBefore
    <3>1. Coming[1][2] # 2
      BY <1>5, <2>2 DEF DeliveredInv
    <3>2. sent'[Due] = "bad"
      BY <1>5, <1>7, <3>1
    <3> QED
      BY <1>8, <3>2 DEF RejectedBefore
  <2> QED
    BY <2>1, <2>2
<1>10. DeliveredInOrder' = DeliveredInOrder
  BY DEF DeliveredInOrder
<1> QED
  BY <1>1, <1>4, <1>6, <1>8, <1>9, <1>10 DEF DeliveredInv

\* However the stream is cut into reads, the handler sees the frames of the peer in
\* order and each once, and every one before the first rejected frame.
THEOREM HandledInOrder == Spec => []DeliveredInOrder
<1>1. ASSUME Init
      PROVE  DeliveredInv
  <2>1. sent = <<>> /\ wire = <<>> /\ buffer = <<>> /\ handled = <<>>
    BY <1>1 DEF Init
  <2>2. \A S : <<>> \in Seq(S)
    BY EmptySeq
  <2>3. Coming = <<>> /\ Len(<<>>) = 0 /\ DOMAIN handled = {}
    <3>1. <<>> \o <<>> = <<>>
      BY <2>2, ConcatEmptySeq
    <3> QED
      BY <2>1, <3>1, EmptySeq DEF Coming
  <2>4. InTyped
    BY <2>1, <2>2 DEF InTyped
  <2>5. Due = 1 /\ EndOfSent(Coming)
    BY <2>1, <2>3 DEF Due, EndOfSent
  <2>6. DeliveredInOrder
    BY <2>3 DEF DeliveredInOrder
  <2> QED
    BY <2>1, <2>3, <2>4, <2>5, <2>6 DEF DeliveredInv
<1>2. ASSUME DeliveredInv, [Next]_vars
      PROVE  DeliveredInv'
  <2>1. ASSUME NEW kind \in {"good", "bad"}, PeerSends(kind)
        PROVE  DeliveredInv'
    BY <1>2, <2>1, SendingKeepsOrder
  <2>2. CASE ReadData
    BY <1>2, <2>2, ReadingKeepsOrder
  <2>3. CASE UNCHANGED <<sent, wire, buffer, handled>>
    <3>1. Coming' = Coming /\ InTyped' = InTyped /\ DeliveredInOrder' = DeliveredInOrder
      BY <2>3 DEF Coming, InTyped, DeliveredInOrder
    <3>2. Due' = Due /\ RejectedBefore' = RejectedBefore
          /\ EndOfSent(Coming)' = EndOfSent(Coming)
      BY <2>3, <3>1 DEF Due, RejectedBefore, EndOfSent
    <3> QED
      BY <1>2, <2>3, <3>1, <3>2 DEF DeliveredInv
  <2>4. CASE Decode
    <3>1. UNCHANGED <<sent, wire>>
      BY <2>4 DEF Decode, socket
    <3>2. CASE /\ Len(buffer) >= 2 /\ buffer[1][2] = 1
               /\ buffer' = SubSeq(buffer, 3, Len(buffer))
               /\ handled' = Append(handled, buffer[1][1])
      BY <1>2, <3>1, <3>2, HandingKeepsOrder
    <3>3. CASE UNCHANGED <<buffer, handled>>
      BY <2>3, <3>1, <3>3
    <3>4. CASE buffer # <<>> /\ buffer[1][2] # 1 /\ buffer' = <<>> /\ UNCHANGED handled
      BY <1>2, <3>1, <3>4, RejectingKeepsOrder
    <3> QED
      BY <2>4, <3>2, <3>3, <3>4 DEF Decode, Incomplete
  <2> QED
    BY <1>2, <2>1, <2>2, <2>3, <2>4, InSteps
<1>3. DeliveredInv => DeliveredInOrder
  BY DEF DeliveredInv
<1> QED
  BY <1>1, <1>2, <1>3, PTL DEF Spec

=============================================================================
