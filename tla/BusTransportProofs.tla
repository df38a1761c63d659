-------------------------- MODULE BusTransportProofs --------------------------
(***************************************************************************)
(* The transport implements FrameChannel for any number of frames, any     *)
(* window, any length of an answer and any frames that are refused.        *)
(*                                                                         *)
(* The argument: while no receive has timed out within an answer, what the *)
(* master has taken of the current answer, what is on its way and what the *)
(* endpoint writes next are consecutive pieces of consecutive answers      *)
(* (Aligned).  A prefix that read completes is therefore the prefix of the *)
(* next answer, and a body its body.                                       *)
(***************************************************************************)
EXTENDS BusTransport, TLAPS, SequenceTheorems

Answering == serving \in {"prefix", "body"}

(* Frames reach the endpoint in the order they were written.               *)
InOrder ==
  /\ executed <= sent
  /\ serving # "closed" =>
       /\ Len(toSlaves) = sent - executed
       /\ \A i \in 1..Len(toSlaves) : toSlaves[i] = executed + i
  /\ Answering => frame = executed /\ executed > 0

(* An answer is written after its frame was executed.                      *)
Answered ==
  /\ \A i \in 1..Len(toMaster) : toMaster[i].of <= executed
  /\ \A i \in 1..Len(got) : got[i].of <= executed

(* Piece k of answer f, or the first piece of the one after it.            *)
Piece(f, k) ==
  IF k <= Body + 2 THEN [of |-> f, piece |-> k] ELSE [of |-> f + 1, piece |-> 1]

(* The piece an endpoint at the step at writes next when it has executed n *)
(* frames, and with it the pieces that follow what has been received.      *)
WrittenAt(at, n) ==
  CASE at = "prefix" -> Piece(n, 1)
    [] at = "body"   -> Piece(n, 3)
    [] OTHER         -> Piece(n + 1, 1)

ComingAt(pieces, at, n) ==
  IF at = "closed" THEN pieces ELSE Append(pieces, WrittenAt(at, n))

Coming == ComingAt(toMaster, serving, executed)

(* Consecutive pieces of consecutive answers.                              *)
Consecutive(seq) ==
  /\ \A i, j \in 1..Len(seq) :
       i <= j /\ seq[i].piece + (j - i) <= Body + 2
         => seq[j] = Piece(seq[i].of, seq[i].piece + (j - i))
  /\ \A i \in 1..Len(seq) :
       i < Len(seq) /\ seq[i].piece = Body + 2
         => seq[i + 1] = Piece(seq[i].of + 1, 1)

(* The pieces of the current answer that went before got.                  *)
Before == IF reading = "body" THEN 2 ELSE 0

Aligned ==
  /\ reading # "drop"
  /\ reading = "idle" => got = <<>>
  /\ reading = "prefix" => Len(got) + need = 2
  /\ reading = "body" => Len(got) + need = Body
  /\ \A i \in 1..Len(got) : got[i] = Piece(Len(delivered) + 1, Before + i)
  /\ Coming # <<>> => Coming[1] = Piece(Len(delivered) + 1, Before + Len(got) + 1)
  /\ Consecutive(Coming)
  /\ Len(delivered) <= executed

TransportInv ==
  /\ TypeOK
  /\ InOrder
  /\ Answered
  /\ cut = Never => Aligned
  /\ cut # Never => cut <= Len(delivered)

-----------------------------------------------------------------------------
(* Facts about sequences, pieces and the constants.                        *)

(* The bounds on the constants that the proofs use.                        *)
LEMMA Bounds == MaxFrames \in Nat /\ Window \in Nat \ {0} /\ Body \in Nat \ {0}
BY BusTransportAssumption

AnyPieces == [of : Nat, piece : 1..Body + 2]

(* A function on 1..n is a sequence of length n.                           *)
LEMMA FunctionIsSeq ==
  ASSUME NEW T, NEW n \in Nat, NEW f \in [1..n -> T]
  PROVE  f \in Seq(T) /\ Len(f) = n
OBVIOUS

(* A piece of an answer that follows.                                      *)
LEMMA PieceTyped ==
  ASSUME NEW f \in Nat, NEW k \in 1..Body + 3
  PROVE  /\ Piece(f, k) \in AnyPieces
         /\ k <= Body + 2 => Piece(f, k).of = f /\ Piece(f, k).piece = k
         /\ k = Body + 3 => Piece(f, k).of = f + 1 /\ Piece(f, k).piece = 1
BY Bounds DEF Piece, AnyPieces

(* The two halves of an answer, piece by piece.                            *)
LEMMA AnswerPieces ==
  ASSUME NEW f \in 1..MaxFrames
  PROVE  /\ Prefix(f) \in Seq(Pieces) /\ Len(Prefix(f)) = 2
         /\ \A k \in 1..2 : Prefix(f)[k] = Piece(f, k)
         /\ BodyOf(f) \in Seq(Pieces) /\ Len(BodyOf(f)) = Body
         /\ \A k \in 1..Body : BodyOf(f)[k] = Piece(f, k + 2)
         /\ \A k \in 1..2 : Prefix(f)[k].of = f
         /\ \A k \in 1..Body : BodyOf(f)[k].of = f
<1>1. Body \in Nat \ {0} /\ MaxFrames \in Nat
  BY Bounds
<1>2. BodyOf(f) \in [1..Body -> Pieces]
  BY <1>1 DEF BodyOf, Pieces
<1>3. BodyOf(f) \in Seq(Pieces) /\ Len(BodyOf(f)) = Body
  BY <1>1, <1>2, FunctionIsSeq
<1>4. \A k \in 1..Body : BodyOf(f)[k] = Piece(f, k + 2) /\ BodyOf(f)[k].of = f
  BY <1>1 DEF BodyOf, Piece
<1>5. [of |-> f, piece |-> 1] \in Pieces /\ [of |-> f, piece |-> 2] \in Pieces
  BY <1>1 DEF Pieces
<1>6. /\ Prefix(f) \in Seq(Pieces) /\ Len(Prefix(f)) = 2
      /\ Prefix(f)[1] = [of |-> f, piece |-> 1] /\ Prefix(f)[2] = [of |-> f, piece |-> 2]
  BY <1>5 DEF Prefix
<1>7. \A k \in 1..2 : Prefix(f)[k] = Piece(f, k) /\ Prefix(f)[k].of = f
  BY <1>1, <1>6 DEF Piece
<1> QED
  BY <1>3, <1>4, <1>6, <1>7

(* A part of consecutive pieces is consecutive.                            *)
LEMMA PartConsecutive ==
  ASSUME NEW s \in Seq(AnyPieces), NEW t \in Seq(AnyPieces), NEW n \in Nat,
         Len(t) + n <= Len(s), \A i \in 1..Len(t) : t[i] = s[i + n],
         Consecutive(s)
  PROVE  Consecutive(t)
<1>1. Len(s) \in Nat /\ Len(t) \in Nat /\ Body \in Nat
  BY Bounds
<1>2. ASSUME NEW i \in 1..Len(t), NEW j \in 1..Len(t),
             i <= j, t[i].piece + (j - i) <= Body + 2
      PROVE  t[j] = Piece(t[i].of, t[i].piece + (j - i))
  <2>0. i \in Int /\ j \in Int
    BY <1>1
  <2>1. i + n \in 1..Len(s) /\ j + n \in 1..Len(s) /\ (j + n) - (i + n) = j - i
    BY <1>1
  <2>2. t[i] = s[i + n] /\ t[j] = s[j + n]
    OBVIOUS
  <2>3. i + n <= j + n /\ s[i + n].piece + ((j + n) - (i + n)) <= Body + 2
    BY <1>1, <1>2, <2>0, <2>1, <2>2
  <2>4. s[j + n] = Piece(s[i + n].of, s[i + n].piece + ((j + n) - (i + n)))
    BY <2>1, <2>3 DEF Consecutive
  <2> QED
    BY <2>1, <2>2, <2>4
<1>3. ASSUME NEW i \in 1..Len(t), i < Len(t), t[i].piece = Body + 2
      PROVE  t[i + 1] = Piece(t[i].of + 1, 1)
  <2>1. i + n \in 1..Len(s) /\ i + n < Len(s) /\ i + 1 \in 1..Len(t)
        /\ (i + n) + 1 = (i + 1) + n
    BY <1>1, <1>3
  <2>2. t[i] = s[i + n] /\ t[i + 1] = s[(i + n) + 1]
    BY <2>1
  <2> QED
    BY <1>3, <2>1, <2>2 DEF Consecutive
<1> QED
  BY <1>2, <1>3 DEF Consecutive

(* Consecutive pieces go on with the m pieces that follow their last one,  *)
(* piece p of answer f, at most up to the first piece of the next answer.  *)
LEMMA LongerConsecutive ==
  ASSUME NEW s \in Seq(AnyPieces), NEW t \in Seq(AnyPieces), NEW m \in Nat,
         NEW f \in Nat, NEW p \in 1..Body + 2, p + m <= Body + 3,
         s # <<>>, Len(t) = Len(s) + m,
         \A i \in 1..Len(s) : t[i] = s[i],
         \A j \in Len(s)..Len(s) + m : t[j] = Piece(f, p + (j - Len(s))),
         Consecutive(s)
  PROVE  Consecutive(t)
<1> DEFINE last == Len(s)
<1>1. last \in Nat \ {0} /\ Body \in Nat \ {0}
  BY Bounds
<1>2. s[last] = Piece(f, p)
  BY <1>1
<1>3. Piece(f, p).of = f /\ Piece(f, p).piece = p
  <2>1. p \in 1..Body + 3 /\ p <= Body + 2
    BY <1>1
  <2> QED
    BY <2>1, PieceTyped
<1>4. \A i \in 1..Len(t) : i >= last => t[i] = Piece(f, p + (i - last))
  <2> SUFFICES ASSUME NEW i \in 1..Len(t), i >= last
               PROVE  t[i] = Piece(f, p + (i - last))
    OBVIOUS
  <2>1. i - last \in 0..m /\ last + (i - last) = i
    BY <1>1
  <2> QED
    BY <2>1
<1>5. \A i \in 1..Len(s) : s[i].of \in Nat /\ s[i].piece \in 1..Body + 2
  <2>1. \A i \in 1..Len(s) : s[i] \in AnyPieces
    BY ElementOfSeq
  <2> QED
    BY <2>1 DEF AnyPieces
<1>6. Len(t) = last + m
  OBVIOUS
<1>7. \A i \in 1..last : t[i] = s[i]
  OBVIOUS
<1>8. \A i, j \in 1..last :
        i <= j /\ s[i].piece + (j - i) <= Body + 2
          => s[j] = Piece(s[i].of, s[i].piece + (j - i))
  BY DEF Consecutive
<1>9. \A i \in 1..last :
        i < last /\ s[i].piece = Body + 2 => s[i + 1] = Piece(s[i].of + 1, 1)
  BY DEF Consecutive
<1>12. \A i \in 1..Len(t) : /\ i \in Int /\ 1 <= i /\ i <= last + m
                             /\ t[i].of \in Nat /\ t[i].piece \in 1..Body + 2
  <2>1. \A i \in 1..Len(t) : t[i] \in AnyPieces
    BY ElementOfSeq
  <2>2. \A i \in 1..Len(t) : i \in Int /\ 1 <= i /\ i <= last + m
    BY <1>1, <1>6
  <2> QED
    BY <2>1, <2>2 DEF AnyPieces
<1>13. m \in Nat /\ p \in Nat /\ p >= 1 /\ p + m <= Body + 3
  BY <1>1
<1> HIDE DEF last
<1>10. ASSUME NEW i \in 1..Len(t), NEW j \in 1..Len(t),
              i <= j, t[i].piece + (j - i) <= Body + 2
       PROVE  t[j] = Piece(t[i].of, t[i].piece + (j - i))
  <2>0. /\ i \in Int /\ 1 <= i /\ i <= last + m /\ j \in Int /\ 1 <= j /\ j <= last + m
        /\ t[i].of \in Nat /\ t[i].piece \in Int
    BY <1>1, <1>12
  <2>1. CASE j <= last
    <3>1. i \in 1..last /\ j \in 1..last
      BY <1>1, <1>10, <2>0, <2>1
    <3>2. t[i] = s[i] /\ t[j] = s[j]
      BY <1>7, <3>1
    <3> QED
      BY <1>8, <1>10, <3>1, <3>2
  <2>2. CASE i <= last /\ j > last
    <3>1. t[i] = s[i] /\ i \in 1..last /\ last \in 1..last
      BY <1>1, <1>7, <2>2
    <3>2. s[i].of \in Nat /\ s[i].piece \in 1..Body + 2
      BY <1>5, <3>1 DEF last
    <3> DEFINE q == s[i].piece
    <3>8. q + (j - i) <= Body + 2 /\ q \in 1..Body + 2
      BY <1>10, <3>1, <3>2
    <3> HIDE DEF q
    <3>9. q + (last - i) <= Body + 2 /\ q + (last - i) \in 1..Body + 2
      BY <1>1, <2>0, <2>2, <3>8
    <3>3. s[i].piece + (last - i) <= Body + 2 /\ s[i].piece + (last - i) \in 1..Body + 2
      BY <3>9 DEF q
    <3>4. s[last] = Piece(s[i].of, s[i].piece + (last - i))
      BY <1>8, <2>2, <3>1, <3>3
    <3>5. f = s[i].of /\ p = s[i].piece + (last - i)
      <4> DEFINE k == s[i].piece + (last - i)
      <4>1. k \in 1..Body + 3 /\ k <= Body + 2
        BY <1>1, <3>3
      <4> HIDE DEF k
      <4>2. Piece(s[i].of, k).of = s[i].of /\ Piece(s[i].of, k).piece = k
        BY <3>2, <4>1, PieceTyped
      <4>3. Piece(f, p) = Piece(s[i].of, k)
        BY <1>2, <3>4 DEF k
      <4>4. f = s[i].of /\ p = k
        BY <1>3, <4>2, <4>3
      <4> QED
        BY <4>4 DEF k
    <3>6. t[j] = Piece(f, p + (j - last))
      BY <1>1, <1>4, <1>6, <1>12, <1>13, <2>2
    <3>10. p = q + (last - i)
      BY <3>5 DEF q
    <3>11. p + (j - last) = q + (j - i)
      BY <1>1, <2>0, <3>8, <3>10
    <3>7. p + (j - last) = s[i].piece + (j - i)
      BY <3>11 DEF q
    <3> QED
      BY <3>1, <3>5, <3>6, <3>7
  <2>3. CASE i > last
    <3>1. t[i] = Piece(f, p + (i - last)) /\ t[j] = Piece(f, p + (j - last))
      BY <1>1, <1>4, <1>6, <1>12, <1>13, <1>10, <2>3
    <3>2. p + (i - last) \in 1..Body + 3 /\ p + (j - last) \in 1..Body + 3
      <4>1. i - last >= 1 /\ j - last >= 1 /\ i - last <= m /\ j - last <= m
            /\ i - last \in Int /\ j - last \in Int
        BY <1>1, <1>10, <1>13, <2>0, <2>3
      <4> QED
        BY <1>1, <1>13, <4>1
    <3>3. CASE p + (i - last) <= Body + 2
      <4>1. t[i].of = f /\ t[i].piece = p + (i - last)
        BY <3>1, <3>2, <3>3, PieceTyped
      <4>2. t[i].piece + (j - i) = p + (j - last)
        BY <1>1, <1>6, <1>12, <1>13, <4>1, SMTT(30)
      <4> QED
        BY <3>1, <4>1, <4>2
    <3>4. CASE p + (i - last) = Body + 3
      <4>1. j = i
        <5>1. i - last = m
          BY <1>1, <1>13, <2>0, <3>4
        <5>2. i <= j /\ j <= last + m /\ last + m = i
          BY <1>1, <1>10, <1>13, <2>0, <5>1
        <5> QED
          BY <2>0, <5>2
      <4>2. t[i].of = f + 1 /\ t[i].piece = 1 /\ t[i] = [of |-> f + 1, piece |-> 1]
        <5>1. t[i] = Piece(f, Body + 3)
          BY <3>1, <3>4
        <5>2. Piece(f, Body + 3) = [of |-> f + 1, piece |-> 1]
          BY <1>1 DEF Piece
        <5> QED
          BY <5>1, <5>2
      <4> QED
        BY <1>1, <4>1, <4>2 DEF Piece
    <3> QED
      BY <1>1, <3>2, <3>3, <3>4
  <2> QED
    BY <1>1, <1>6, <1>12, <1>13, <2>1, <2>2, <2>3
<1>11. ASSUME NEW i \in 1..Len(t), i < Len(t), t[i].piece = Body + 2
       PROVE  t[i + 1] = Piece(t[i].of + 1, 1)
  <2>0. i \in Int /\ 1 <= i /\ i < last + m /\ t[i].of \in Nat
    BY <1>1, <1>6, <1>11, <1>12
  <2>1. CASE i < last
    <3>1. i \in 1..last /\ i + 1 \in 1..last
      BY <1>1, <1>6, <1>12, <1>13, <2>1
    <3> QED
      BY <1>7, <1>9, <1>11, <2>1, <3>1
  <2>2. CASE i >= last
    <3>5. i + 1 \in 1..Len(t) /\ i + 1 >= last
      BY <1>1, <1>6, <1>13, <2>0, <2>2, SMTT(30)
    <3>1. t[i] = Piece(f, p + (i - last)) /\ t[i + 1] = Piece(f, p + ((i + 1) - last))
      BY <1>4, <2>2, <3>5
    <3>2. p + (i - last) \in 1..Body + 2
      BY <1>1, <1>13, <2>0, <2>2, SMTT(30)
    <3>3. t[i].of = f /\ t[i].piece = p + (i - last)
      BY <1>1, <3>1, <3>2, PieceTyped
    <3>4. p + ((i + 1) - last) = Body + 3
      BY <1>1, <1>11, <1>13, <2>0, <3>3
    <3> QED
      BY <1>1, <3>1, <3>3, <3>4 DEF Piece
  <2> QED
    BY <1>1, <1>6, <1>12, <1>13, <2>1, <2>2
<1> QED
  BY <1>10, <1>11 DEF Consecutive

-----------------------------------------------------------------------------
(* Types and the order of the frames.                                      *)

(* The parts of TypeOK as the backends take them.                          *)
LEMMA Typed ==
  ASSUME TypeOK
  PROVE  /\ sent \in 0..MaxFrames /\ executed \in 0..MaxFrames /\ frame \in 0..MaxFrames
         /\ owed \in 0..Window /\ need \in 0..Body + 2 /\ cut \in 0..MaxFrames + 1
         /\ got \in Seq(Pieces) /\ toMaster \in Seq(Pieces)
         /\ delivered \in Seq(0..MaxFrames) /\ toSlaves \in Seq(1..MaxFrames)
         /\ Len(got) \in Nat /\ Len(toMaster) \in Nat
         /\ Len(delivered) \in Nat /\ Len(toSlaves) \in Nat
         /\ stop \in BOOLEAN /\ masterOpen \in BOOLEAN
BY DEF TypeOK, Never

(* What read hands out is a frame or Garbage.                              *)
LEMMA FrameOfTyped ==
  ASSUME NEW seq
  PROVE  FrameOf(seq) \in 0..MaxFrames
BY Bounds DEF FrameOf, Garbage

(* The two parts a receive makes of what has arrived.                      *)
LEMMA Split ==
  ASSUME NEW T, NEW seq \in Seq(T), NEW n \in 0..Len(seq)
  PROVE  /\ SubSeq(seq, 1, n) \in Seq(T) /\ Len(SubSeq(seq, 1, n)) = n
         /\ \A i \in 1..n : SubSeq(seq, 1, n)[i] = seq[i]
         /\ SubSeq(seq, n + 1, Len(seq)) \in Seq(T)
         /\ Len(SubSeq(seq, n + 1, Len(seq))) = Len(seq) - n
         /\ \A i \in 1..Len(seq) - n : SubSeq(seq, n + 1, Len(seq))[i] = seq[n + i]
<1>1. Len(seq) \in Nat /\ \A i \in 1..Len(seq) : seq[i] \in T
  BY ElementOfSeq
<1> DEFINE len == Len(seq)
<1>2. len \in Nat /\ n \in Nat /\ n <= len /\ \A i \in 1..len : seq[i] \in T
  BY <1>1
<1> HIDE DEF len
<1>3. \A i \in 1..n : seq[i] \in T
  BY <1>2
<1>4. \A i \in n + 1..len : seq[i] \in T
  BY <1>2
<1>5. /\ SubSeq(seq, 1, n) \in Seq(T)
      /\ Len(SubSeq(seq, 1, n)) = IF 1 <= n THEN n - 1 + 1 ELSE 0
      /\ \A i \in 1..n - 1 + 1 : SubSeq(seq, 1, n)[i] = seq[1 + i - 1]
  <2>1. 1 \in Int /\ n \in Int
    BY <1>2
  <2> QED
    BY <2>1, <1>3, SubSeqProperties
<1>6. /\ SubSeq(seq, n + 1, len) \in Seq(T)
      /\ Len(SubSeq(seq, n + 1, len)) = IF n + 1 <= len THEN len - (n + 1) + 1 ELSE 0
      /\ \A i \in 1..len - (n + 1) + 1 : SubSeq(seq, n + 1, len)[i] = seq[n + 1 + i - 1]
  <2>1. n + 1 \in Int /\ len \in Int
    BY <1>2
  <2> QED
    BY <2>1, <1>4, SubSeqProperties
<1>7. Len(SubSeq(seq, 1, n)) = n /\ Len(SubSeq(seq, n + 1, len)) = len - n
  BY <1>2, <1>5, <1>6
<1>8. \A i \in 1..n : SubSeq(seq, 1, n)[i] = seq[i]
  <2> SUFFICES ASSUME NEW i \in 1..n PROVE SubSeq(seq, 1, n)[i] = seq[i]
    OBVIOUS
  <2>1. i \in 1..n - 1 + 1 /\ 1 + i - 1 = i
    BY <1>2
  <2> QED
    BY <1>5, <2>1
<1>9. \A i \in 1..len - n : SubSeq(seq, n + 1, len)[i] = seq[n + i]
  <2> SUFFICES ASSUME NEW i \in 1..len - n PROVE SubSeq(seq, n + 1, len)[i] = seq[n + i]
    OBVIOUS
  <2>1. i \in 1..len - (n + 1) + 1 /\ n + 1 + i - 1 = n + i
    BY <1>2
  <2> QED
    BY <1>6, <2>1
<1> QED
  BY <1>5, <1>6, <1>7, <1>8, <1>9 DEF len

(* Every step keeps the types.                                             *)
LEMMA TypeStep ==
  ASSUME TransportInv, [Next]_vars
  PROVE  TypeOK'
<1>0. TypeOK /\ InOrder
  BY DEF TransportInv
<1>1. MaxFrames \in Nat /\ Window \in Nat \ {0} /\ Body \in Nat \ {0}
  BY Bounds
<1>2. CASE Write
  BY <1>0, <1>1, <1>2 DEF Write, TypeOK, endpointVars
<1>3. CASE ReadBegin
  BY <1>0, <1>1, <1>3 DEF ReadBegin, TypeOK, endpointVars
<1>4. ASSUME NEW n \in 1..Body + 2, Receive(n)
      PROVE  TypeOK'
  <2>1. n \in 0..Len(toMaster) /\ toMaster \in Seq(Pieces) /\ got \in Seq(Pieces)
    BY <1>0, <1>1, <1>4, Typed DEF Receive
  <2>2. SubSeq(toMaster, 1, n) \in Seq(Pieces) /\ toMaster' \in Seq(Pieces)
    BY <1>4, <2>1, Split DEF Receive
  <2>3. got' \in Seq(Pieces)
    BY <1>4, <2>1, <2>2, ConcatProperties DEF Receive
  <2>4. need' \in 0..Body + 2
    BY <1>0, <1>1, <1>4 DEF Receive, TypeOK
  <2> QED
    BY <1>0, <1>4, <2>2, <2>3, <2>4 DEF Receive, TypeOK, endpointVars
<1>5. CASE PrefixComplete
  BY <1>0, <1>1, <1>5 DEF PrefixComplete, TypeOK, endpointVars
<1>6. CASE BodyComplete
  <2>1. delivered' \in Seq(0..MaxFrames)
    BY <1>0, <1>6, FrameOfTyped, AppendProperties DEF BodyComplete, TypeOK
  <2> QED
    BY <1>0, <1>1, <1>6, <2>1 DEF BodyComplete, TypeOK, endpointVars
<1>7. CASE DropComplete
  BY <1>0, <1>7 DEF DropComplete, TypeOK, endpointVars
<1>8. CASE ReadFails
  <2>1. cut' \in 0..Never
    <3>1. CASE cut = Never
      <4>1. Len(delivered) <= executed
        BY <3>1 DEF TransportInv, Aligned
      <4> QED
        BY <1>0, <1>1, <1>8, <4>1, Typed DEF ReadFails, Never
    <3>2. CASE cut # Never
      BY <1>0, <1>8, <3>2 DEF ReadFails, TypeOK
    <3> QED
      BY <3>1, <3>2
  <2> QED
    BY <1>0, <1>1, <1>8, <2>1 DEF ReadFails, TypeOK, endpointVars
<1>9. CASE MasterExit
  BY <1>0, <1>9 DEF MasterExit, TypeOK, masterVars, endpointVars
<1>10. CASE LoopTop
  BY <1>0, <1>10 DEF LoopTop, TypeOK, masterVars
<1>11. CASE Serve
  <2>1. toSlaves \in Seq(1..MaxFrames) /\ toSlaves # <<>>
    BY <1>0, <1>11, Typed DEF Serve
  <2>2. toSlaves' \in Seq(1..MaxFrames) /\ Head(toSlaves) \in 1..MaxFrames
    BY <1>11, <2>1, HeadTailProperties DEF Serve
  <2>3. executed + 1 \in 0..MaxFrames
    <3>1. Len(toSlaves) = sent - executed /\ Len(toSlaves) > 0
      BY <1>0, <1>11, <2>1 DEF Serve, InOrder
    <3>2. sent \in 0..MaxFrames /\ executed \in 0..MaxFrames
      BY <1>0, Typed
    <3> QED
      BY <1>1, <3>1, <3>2
  <2> QED
    BY <1>0, <1>1, <1>11, <2>2, <2>3, SMTT(30) DEF Serve, TypeOK, masterVars
<1>12. CASE Answer
  <2>1. CASE masterOpen
    <3>1. frame \in 1..MaxFrames /\ toMaster \in Seq(Pieces)
      BY <1>0, <1>1, <1>12, Typed DEF Answer, InOrder, Answering
    <3> DEFINE half == IF serving = "prefix" THEN Prefix(frame) ELSE BodyOf(frame)
    <3>3. half \in Seq(Pieces)
      BY <3>1, AnswerPieces
    <3>4. toMaster' = toMaster \o half
      BY <1>12, <2>1 DEF Answer
    <3> HIDE DEF half
    <3>2. toMaster' \in Seq(Pieces)
      BY <3>1, <3>3, <3>4, ConcatProperties
    <3> QED
      BY <1>0, <1>12, <2>1, <3>2 DEF Answer, TypeOK, masterVars
  <2>2. CASE ~masterOpen
    BY <1>0, <1>12, <2>2 DEF Answer, TypeOK, masterVars
  <2> QED
    BY <2>1, <2>2
<1>13. CASE GiveUp
  BY <1>0, <1>13 DEF GiveUp, TypeOK, masterVars
<1>14. CASE RequestStop
  BY <1>0, <1>14 DEF RequestStop, TypeOK, masterVars, endpointVars
<1>15. CASE UNCHANGED vars
  BY <1>0, <1>15 DEF vars, TypeOK, masterVars, endpointVars
<1> QED
  BY <1>2, <1>3, <1>4, <1>5, <1>6, <1>7, <1>8, <1>9, <1>10, <1>11, <1>12, <1>13, <1>14,
     <1>15 DEF Next, MasterNext, MasterReads, EndpointNext

(* Frames arrive in order and are executed in order.                       *)
LEMMA OrderStep ==
  ASSUME TransportInv, [Next]_vars
  PROVE  InOrder'
<1>0. TypeOK /\ InOrder
  BY DEF TransportInv
<1>1. /\ sent \in Nat /\ executed \in Nat /\ executed <= sent /\ frame \in Nat
      /\ toSlaves \in Seq(1..MaxFrames) /\ Len(toSlaves) \in Nat /\ MaxFrames \in Nat
  BY <1>0, Bounds, Typed DEF InOrder
<1>2. CASE Write
  <2>1. sent + 1 \in 1..MaxFrames
    BY <1>0, <1>1, <1>2, Typed DEF Write
  <2>2. /\ Len(toSlaves') = Len(toSlaves) + 1 /\ toSlaves'[Len(toSlaves) + 1] = sent + 1
        /\ \A i \in 1..Len(toSlaves) : toSlaves'[i] = toSlaves[i]
    BY <1>1, <1>2, <2>1, AppendProperties DEF Write
  <2>3. Len(toSlaves) = sent - executed /\ \A i \in 1..Len(toSlaves) : toSlaves[i] = executed + i
    BY <1>0, <1>2 DEF Write, InOrder
  <2>4. Len(toSlaves') = sent' - executed' /\ executed' <= sent'
    BY <1>1, <1>2, <2>2, <2>3 DEF Write, endpointVars
  <2>5. ASSUME NEW i \in 1..Len(toSlaves') PROVE toSlaves'[i] = executed' + i
    <3>1. executed' = executed
      BY <1>2 DEF Write, endpointVars
    <3>2. CASE i <= Len(toSlaves)
      BY <1>1, <2>2, <2>3, <3>1, <3>2
    <3>3. CASE i = Len(toSlaves) + 1
      BY <1>1, <2>2, <2>3, <3>1, <3>3
    <3> QED
      BY <1>1, <2>2, <3>2, <3>3
  <2> QED
    BY <1>0, <1>2, <2>4, <2>5 DEF Write, InOrder, Answering, endpointVars
<1>3. CASE Serve
  <2>1. toSlaves # <<>>
    BY <1>3 DEF Serve
  <2>2. /\ Len(toSlaves') = Len(toSlaves) - 1 /\ Head(toSlaves) = toSlaves[1]
        /\ \A i \in 1..Len(toSlaves') : toSlaves'[i] = toSlaves[i + 1]
    BY <1>1, <1>3, <2>1, HeadTailProperties DEF Serve
  <2>3. /\ Len(toSlaves) = sent - executed /\ Len(toSlaves) > 0
        /\ \A i \in 1..Len(toSlaves) : toSlaves[i] = executed + i
    BY <1>0, <1>1, <1>3, <2>1 DEF Serve, InOrder
  <2>4. CASE Head(toSlaves) \in Oversized
    BY <1>1, <1>3, <2>4 DEF Serve, InOrder, Answering, masterVars
  <2>5. CASE Head(toSlaves) \notin Oversized
    <3>1. sent' = sent /\ executed' = executed + 1 /\ frame' = toSlaves[1] /\ serving' = "prefix"
      BY <1>3, <2>2, <2>5 DEF Serve, masterVars
    <3>2. Len(toSlaves') = sent' - executed' /\ executed' <= sent' /\ frame' = executed'
          /\ executed' > 0
      BY <1>1, <2>2, <2>3, <3>1
    <3>3. \A i \in 1..Len(toSlaves') : toSlaves'[i] = executed' + i
      BY <1>1, <2>2, <2>3, <3>1
    <3> QED
      BY <3>1, <3>2, <3>3 DEF InOrder
  <2> QED
    BY <2>4, <2>5
<1>4. CASE Answer
  BY <1>0, <1>4 DEF Answer, InOrder, Answering, masterVars
<1>5. CASE LoopTop \/ GiveUp
  BY <1>0, <1>5 DEF LoopTop, GiveUp, InOrder, Answering, masterVars
<1>6. CASE UNCHANGED <<sent, toSlaves, serving, frame, executed>>
  BY <1>0, <1>6 DEF InOrder, Answering
<1>7. ASSUME NEW n \in 1..Body + 2, Receive(n)
      PROVE  UNCHANGED <<sent, toSlaves, serving, frame, executed>>
  BY <1>7 DEF Receive, endpointVars
<1>8. CASE ReadBegin \/ PrefixComplete \/ BodyComplete \/ DropComplete \/ ReadFails
  BY <1>6, <1>8 DEF ReadBegin, PrefixComplete, BodyComplete, DropComplete, ReadFails, endpointVars
<1>9. CASE MasterExit \/ RequestStop \/ UNCHANGED vars
  BY <1>6, <1>9 DEF MasterExit, RequestStop, vars, masterVars, endpointVars
<1> QED
  BY <1>2, <1>3, <1>4, <1>5, <1>6, <1>7, <1>8, <1>9
     DEF Next, MasterNext, MasterReads, EndpointNext

(* What is on its way to the master belongs to executed frames.            *)
LEMMA AnsweredStep ==
  ASSUME TransportInv, [Next]_vars
  PROVE  Answered'
<1>0. TypeOK /\ InOrder /\ Answered
  BY DEF TransportInv
<1>1. /\ executed \in Nat /\ Len(toMaster) \in Nat /\ Len(got) \in Nat /\ Body \in Nat
      /\ toMaster \in Seq(Pieces) /\ got \in Seq(Pieces)
  BY <1>0, Bounds, Typed
<1>2. ASSUME NEW n \in 1..Body + 2, Receive(n)
      PROVE  Answered'
  <2>1. n \in 0..Len(toMaster) /\ executed' = executed
    BY <1>1, <1>2 DEF Receive, endpointVars
  <2> DEFINE part == SubSeq(toMaster, 1, n)
  <2>2. /\ part \in Seq(Pieces) /\ Len(part) = n /\ \A i \in 1..n : part[i] = toMaster[i]
        /\ Len(toMaster') = Len(toMaster) - n
        /\ \A i \in 1..Len(toMaster) - n : toMaster'[i] = toMaster[n + i]
    BY <1>1, <1>2, <2>1, Split DEF Receive
  <2>3. got' = got \o part
    BY <1>2 DEF Receive
  <2> HIDE DEF part
  <2>4. /\ Len(got') = Len(got) + n
        /\ \A i \in 1..Len(got) + n : got'[i] = IF i <= Len(got) THEN got[i] ELSE part[i - Len(got)]
    BY <1>1, <2>2, <2>3, ConcatProperties, ZenonT(60)
  <2>5. ASSUME NEW i \in 1..Len(toMaster') PROVE toMaster'[i].of <= executed'
    <3>1. n + i \in 1..Len(toMaster) /\ i \in 1..Len(toMaster) - n
      BY <1>1, <2>1, <2>2
    <3> QED
      BY <1>0, <2>1, <2>2, <3>1 DEF Answered
  <2>6. ASSUME NEW i \in 1..Len(got') PROVE got'[i].of <= executed'
    <3>1. CASE i <= Len(got)
      <4>1. i \in 1..Len(got) /\ got'[i] = got[i]
        BY <1>1, <2>4, <3>1
      <4> QED
        BY <1>0, <2>1, <4>1 DEF Answered
    <3>2. CASE i > Len(got)
      <4>1. i - Len(got) \in 1..n /\ i - Len(got) \in 1..Len(toMaster)
        BY <1>1, <2>1, <2>4, <3>2
      <4>2. got'[i] = toMaster[i - Len(got)]
        BY <1>1, <2>2, <2>4, <3>2, <4>1
      <4> QED
        BY <1>0, <2>1, <4>1, <4>2 DEF Answered
    <3> QED
      BY <1>1, <2>4, <3>1, <3>2
  <2> QED
    BY <2>5, <2>6 DEF Answered
<1>3. CASE Answer
  <2>1. CASE masterOpen
    <3> DEFINE half == IF serving = "prefix" THEN Prefix(frame) ELSE BodyOf(frame)
    <3>1. frame = executed /\ frame \in 1..MaxFrames
      BY <1>0, <1>1, <1>3, Bounds, Typed DEF Answer, InOrder, Answering
    <3>2. half \in Seq(Pieces) /\ Len(half) \in Nat /\ \A i \in 1..Len(half) : half[i].of = frame
      BY <1>1, <3>1, AnswerPieces, SMTT(30)
    <3>3. toMaster' = toMaster \o half /\ executed' = executed /\ got' = got
      BY <1>3, <2>1 DEF Answer, masterVars
    <3> HIDE DEF half
    <3>4. /\ Len(toMaster') = Len(toMaster) + Len(half)
          /\ \A i \in 1..Len(toMaster) + Len(half) :
               toMaster'[i] = IF i <= Len(toMaster) THEN toMaster[i] ELSE half[i - Len(toMaster)]
      BY <1>1, <3>2, <3>3, ConcatProperties
    <3>5. ASSUME NEW i \in 1..Len(toMaster') PROVE toMaster'[i].of <= executed'
      <4>1. CASE i <= Len(toMaster)
        <5>1. i \in 1..Len(toMaster) /\ toMaster'[i] = toMaster[i]
          BY <1>1, <3>2, <3>4, <4>1
        <5> QED
          BY <1>0, <3>3, <5>1 DEF Answered
      <4>2. CASE i > Len(toMaster)
        <5>1. i - Len(toMaster) \in 1..Len(half) /\ toMaster'[i] = half[i - Len(toMaster)]
          BY <1>1, <3>2, <3>4, <4>2
        <5> QED
          BY <1>1, <3>1, <3>2, <3>3, <5>1
      <4> QED
        BY <1>1, <3>2, <3>4, <4>1, <4>2
    <3> QED
      BY <1>0, <3>3, <3>5 DEF Answered
  <2>2. CASE ~masterOpen
    BY <1>0, <1>3, <2>2 DEF Answer, Answered, masterVars
  <2> QED
    BY <2>1, <2>2
<1>4. CASE Serve
  <2>1. executed' \in Nat /\ executed <= executed' /\ toMaster' = toMaster /\ got' = got
    BY <1>1, <1>4 DEF Serve, masterVars
  <2>2. /\ \A i \in 1..Len(toMaster) : toMaster[i].of \in Nat /\ toMaster[i].of <= executed
        /\ \A i \in 1..Len(got) : got[i].of \in Nat /\ got[i].of <= executed
    <3>1. /\ \A i \in 1..Len(toMaster) : toMaster[i] \in Pieces
          /\ \A i \in 1..Len(got) : got[i] \in Pieces
      BY <1>1, ElementOfSeq
    <3>2. \A x \in Pieces : x.of \in Nat
      BY Bounds DEF Pieces
    <3> QED
      BY <1>0, <3>1, <3>2 DEF Answered
  <2> QED
    BY <1>1, <2>1, <2>2 DEF Answered
<1>5. CASE UNCHANGED <<got, toMaster, executed>>
  BY <1>0, <1>5 DEF Answered
<1>6. CASE got' = <<>> /\ UNCHANGED <<toMaster, executed>>
  BY <1>0, <1>6 DEF Answered
<1>7. CASE Write \/ MasterExit \/ LoopTop \/ GiveUp \/ RequestStop \/ UNCHANGED vars
  BY <1>5, <1>7 DEF Write, MasterExit, LoopTop, GiveUp, RequestStop, vars, masterVars, endpointVars
<1>8. CASE ReadBegin \/ PrefixComplete \/ BodyComplete \/ DropComplete \/ ReadFails
  BY <1>6, <1>8 DEF ReadBegin, PrefixComplete, BodyComplete, DropComplete, ReadFails, endpointVars
<1> QED
  BY <1>2, <1>3, <1>4, <1>7, <1>8 DEF Next, MasterNext, MasterReads, EndpointNext

-----------------------------------------------------------------------------
(* The alignment of the stream.                                            *)

(* What is coming, from its parts.                                         *)
LEMMA ComingFacts ==
  ASSUME NEW pieces \in Seq(Pieces), NEW at, NEW n \in Nat
  PROVE  /\ ComingAt(pieces, at, n) \in Seq(AnyPieces)
         /\ \A i \in 1..Len(pieces) : ComingAt(pieces, at, n)[i] = pieces[i]
         /\ at = "closed" => ComingAt(pieces, at, n) = pieces
         /\ at # "closed" => /\ Len(ComingAt(pieces, at, n)) = Len(pieces) + 1
                             /\ ComingAt(pieces, at, n)[Len(pieces) + 1] = WrittenAt(at, n)
<1>1. MaxFrames \in Nat /\ Body \in Nat \ {0}
  BY Bounds
<1>2. Pieces \subseteq AnyPieces
  BY <1>1 DEF Pieces, AnyPieces
<1>3. pieces \in Seq(AnyPieces)
  BY <1>2
<1>4. 1 \in 1..Body + 3 /\ 3 \in 1..Body + 3 /\ n + 1 \in Nat
  BY <1>1
<1>5. WrittenAt(at, n) \in AnyPieces
  BY <1>4, PieceTyped DEF WrittenAt
<1> QED
  BY <1>3, <1>5, AppendProperties DEF ComingAt

(* Nothing is received and the same pieces come next.                      *)
LEMMA SameComing ==
  ASSUME TransportInv, cut = Never,
         UNCHANGED <<reading, need, got, delivered>>, Coming' = Coming,
         executed' \in Nat, executed <= executed'
  PROVE  Aligned'
<1>1. Aligned /\ TypeOK
  BY DEF TransportInv
<1>2. Len(delivered) <= executed'
  BY <1>1, Typed DEF Aligned
<1> QED
  BY <1>1, <1>2 DEF Aligned, Consecutive, Before

(* The session closes: what has been written still comes.                  *)
LEMMA ClosedComing ==
  ASSUME TransportInv, cut = Never,
         UNCHANGED <<reading, need, got, delivered>>, UNCHANGED <<toMaster, executed>>,
         serving' = "closed"
  PROVE  Aligned'
<1>1. Aligned /\ TypeOK
  BY DEF TransportInv
<1>2. toMaster \in Seq(Pieces) /\ executed \in Nat /\ Len(toMaster) \in Nat
  BY <1>1, Typed
<1>3. Coming' = toMaster
  BY DEF Coming, ComingAt
<1> DEFINE t == toMaster  s == Coming
<1>4. /\ s \in Seq(AnyPieces) /\ t \in Seq(AnyPieces) /\ Len(t) <= Len(s)
      /\ \A i \in 1..Len(t) : t[i] = s[i]
  <2>1. toMaster = ComingAt(toMaster, "closed", executed)
    BY DEF ComingAt
  <2> QED
    BY <1>2, <2>1, ComingFacts DEF Coming
<1>5. Consecutive(s)
  BY <1>1 DEF Aligned
<1>6. t # <<>> => s # <<>> /\ t[1] = s[1]
  BY <1>2, <1>4
<1> HIDE DEF t, s
<1>7. Consecutive(t)
  <2>1. Len(t) + 0 <= Len(s) /\ \A i \in 1..Len(t) : t[i] = s[i + 0]
    BY <1>4
  <2> QED
    BY <1>4, <1>5, <2>1, PartConsecutive
<1>8. Consecutive(Coming)'
  BY <1>3, <1>7 DEF Consecutive, t
<1>9. Coming' # <<>> => Coming # <<>> /\ Coming'[1] = Coming[1]
  BY <1>3, <1>6 DEF t, s
<1> QED
  BY <1>1, <1>8, <1>9 DEF Aligned, Before

(* Half an answer is written: the pieces that follow it come after it.     *)
LEMMA AnswerAligned ==
  ASSUME TransportInv, cut = Never, Answer, masterOpen
  PROVE  Aligned'
<1>1. Aligned /\ TypeOK /\ InOrder
  BY DEF TransportInv
<1>2. /\ toMaster \in Seq(Pieces) /\ executed \in 1..MaxFrames /\ Len(toMaster) \in Nat
      /\ frame = executed /\ Body \in Nat \ {0} /\ executed \in Nat
  BY <1>1, Bounds, Typed DEF Answer, InOrder, Answering
<1> DEFINE half == IF serving = "prefix" THEN Prefix(executed) ELSE BodyOf(executed)
           m    == IF serving = "prefix" THEN 2 ELSE Body
           p    == IF serving = "prefix" THEN 1 ELSE 3
           all  == toMaster \o half
           s    == ComingAt(toMaster, serving, executed)
           t    == ComingAt(all, serving', executed)
<1>3. serving \in {"prefix", "body"}
  BY DEF Answer
<1>4. serving' = IF serving = "prefix" THEN "body" ELSE "top"
  BY DEF Answer
<1>5. toMaster' = toMaster \o half /\ executed' = executed
  BY <1>2 DEF Answer
<1>6. /\ half \in Seq(Pieces) /\ Len(half) = m
      /\ \A k \in 1..m : half[k] = Piece(executed, p + (k - 1))
  <2>1. CASE serving = "prefix"
    <3>1. \A k \in 1..2 : 1 + (k - 1) = k
      OBVIOUS
    <3> QED
      BY <1>2, <2>1, <3>1, AnswerPieces
  <2>2. CASE serving = "body"
    <3>1. \A k \in 1..Body : 3 + (k - 1) = k + 2
      BY <1>2
    <3> QED
      BY <1>2, <2>2, <3>1, AnswerPieces
  <2> QED
    BY <1>3, <2>1, <2>2
<1>7. m \in Nat \ {0} /\ p \in 1..Body + 2 /\ p + m <= Body + 3
  BY <1>2, <1>3
<1>8. WrittenAt(serving, executed) = Piece(executed, p)
  BY <1>3 DEF WrittenAt
<1>9. WrittenAt(serving', executed) = Piece(executed, p + m)
  <2>1. CASE serving = "prefix"
    BY <1>4, <2>1 DEF WrittenAt
  <2>2. CASE serving = "body"
    BY <1>2, <1>4, <2>2 DEF WrittenAt, Piece
  <2> QED
    BY <1>3, <2>1, <2>2
<1>10. Coming = s /\ Coming' = t
  BY <1>5 DEF Coming
<1> HIDE DEF half, m, p
<1> DEFINE n == Len(toMaster)
<1>14. n \in Nat
  BY <1>2
<1>11. /\ all \in Seq(Pieces) /\ Len(all) = n + m
       /\ \A i \in 1..n + m : all[i] = IF i <= n THEN toMaster[i] ELSE half[i - n]
  BY <1>2, <1>6, ConcatProperties
<1> HIDE DEF all
<1>23. /\ \A i \in 1..n : i \in 1..n + m /\ all[i] = toMaster[i]
       /\ \A k \in 1..m : n + k \in 1..n + m /\ all[n + k] = half[k]
  <2>1. ASSUME NEW i \in 1..n PROVE i \in 1..n + m /\ all[i] = toMaster[i]
    BY <1>7, <1>11, <1>14
  <2>2. ASSUME NEW k \in 1..m PROVE n + k \in 1..n + m /\ all[n + k] = half[k]
    <3>1. n + k \in 1..n + m /\ ~(n + k <= n) /\ n + k - n = k
      BY <1>7, <1>14
    <3> QED
      BY <1>11, <3>1
  <2> QED
    BY <2>1, <2>2
<1>12. /\ s \in Seq(AnyPieces) /\ Len(s) = n + 1 /\ s[n + 1] = Piece(executed, p)
       /\ \A i \in 1..n : s[i] = toMaster[i]
  BY <1>2, <1>3, <1>8, ComingFacts
<1>13. /\ t \in Seq(AnyPieces) /\ Len(t) = n + m + 1 /\ t[n + m + 1] = Piece(executed, p + m)
       /\ \A i \in 1..n + m : t[i] = all[i]
  <2>1. serving' # "closed"
    BY <1>4
  <2> QED
    BY <1>2, <1>9, <1>11, <2>1, ComingFacts
<1>15. Consecutive(s)
  BY <1>1 DEF Aligned, Coming
<1> HIDE DEF s, t, n
<1>16. \A i \in 1..n : t[i] = s[i]
  BY <1>12, <1>13, <1>23
<1>17. \A j \in n + 1..n + 1 + m : t[j] = Piece(executed, p + (j - (n + 1)))
  <2> SUFFICES ASSUME NEW k \in 0..m PROVE t[n + 1 + k] = Piece(executed, p + k)
    <3>1. ASSUME NEW j \in n + 1..n + 1 + m
          PROVE  j - (n + 1) \in 0..m /\ n + 1 + (j - (n + 1)) = j
      BY <1>7, <1>14
    <3> QED
      BY <3>1
  <2>1. CASE k = m
    <3>1. n + 1 + k = n + m + 1
      BY <1>7, <1>14, <2>1
    <3> QED
      BY <1>13, <2>1, <3>1
  <2>2. CASE k < m
    <3>1. n + 1 + k = n + (k + 1) /\ k + 1 \in 1..m /\ p + ((k + 1) - 1) = p + k
      BY <1>7, <1>14, <2>2
    <3>2. t[n + (k + 1)] = half[k + 1]
      BY <1>13, <1>23, <3>1
    <3>3. half[k + 1] = Piece(executed, p + k)
      BY <1>6, <3>1
    <3> QED
      BY <3>1, <3>2, <3>3
  <2> QED
    BY <1>7, <2>1, <2>2
<1>18. t[n + 1] = s[n + 1]
  <2>1. n + 1 \in n + 1..n + 1 + m /\ p + ((n + 1) - (n + 1)) = p
    BY <1>7, <1>14
  <2> QED
    BY <1>12, <1>17, <2>1
<1>19. \A i \in 1..Len(s) : t[i] = s[i]
  BY <1>12, <1>14, <1>16, <1>18
<1>20. s # <<>> /\ s[1] = t[1] /\ t # <<>>
  BY <1>7, <1>12, <1>13, <1>14, <1>19
<1>21. Consecutive(t)
  <2>1. Len(t) = Len(s) + m /\ m \in Nat
    BY <1>7, <1>12, <1>13, <1>14
  <2>2. \A j \in Len(s)..Len(s) + m : t[j] = Piece(executed, p + (j - Len(s)))
    BY <1>12, <1>17
  <2>3. s \in Seq(AnyPieces) /\ t \in Seq(AnyPieces) /\ executed \in Nat
    BY <1>2, <1>12, <1>13
  <2>4. p \in 1..Body + 2 /\ p + m <= Body + 3 /\ s # <<>>
    BY <1>7, <1>20
  <2> QED
    BY <1>15, <1>19, <2>1, <2>2, <2>3, <2>4, LongerConsecutive, Zenon
<1>22. Consecutive(Coming)' /\ Coming # <<>> /\ Coming'[1] = Coming[1]
  BY <1>10, <1>20, <1>21 DEF Consecutive
<1> QED
  BY <1>1, <1>5, <1>22 DEF Aligned, Answer, Before, masterVars

(* A receive takes pieces of the current answer only, and the piece after  *)
(* them comes next.                                                        *)
LEMMA ReceiveAligned ==
  ASSUME TransportInv, cut = Never, NEW n \in 1..Body + 2, Receive(n)
  PROVE  Aligned'
<1>1. Aligned /\ TypeOK
  BY DEF TransportInv
<1>2. /\ toMaster \in Seq(Pieces) /\ got \in Seq(Pieces) /\ executed \in Nat
      /\ Len(toMaster) \in Nat /\ Len(got) \in Nat /\ Len(delivered) \in Nat
      /\ need \in Nat /\ Body \in Nat \ {0}
  BY <1>1, Bounds, Typed
<1> DEFINE g    == Len(got)
           left == Len(toMaster) - n
           f    == Len(delivered) + 1
           part == SubSeq(toMaster, 1, n)
           rest == SubSeq(toMaster, n + 1, Len(toMaster))
           s    == Coming
           t    == ComingAt(rest, serving, executed)
<1>3. n \in 0..Len(toMaster) /\ n <= need /\ n >= 1
  BY <1>2 DEF Receive
<1>4. /\ got' = got \o part /\ toMaster' = rest /\ need' = need - n
      /\ UNCHANGED <<reading, delivered, serving, executed>>
  BY DEF Receive, endpointVars
<1>5. /\ part \in Seq(Pieces) /\ Len(part) = n /\ \A i \in 1..n : part[i] = toMaster[i]
      /\ rest \in Seq(Pieces) /\ Len(rest) = left
      /\ \A i \in 1..left : rest[i] = toMaster[n + i]
  BY <1>2, <1>3, Split
<1>6. left \in Nat /\ Len(toMaster) = left + n /\ f \in Nat /\ g \in Nat
  BY <1>2, <1>3
<1>7. Coming' = t
  BY <1>4 DEF Coming
<1>8. /\ s \in Seq(AnyPieces) /\ Len(s) >= left + n /\ Len(s) \in Nat
      /\ \A i \in 1..left + n : s[i] = toMaster[i]
      /\ serving # "closed" => Len(s) = left + n + 1 /\ s[left + n + 1] = WrittenAt(serving, executed)
      /\ serving = "closed" => Len(s) = left + n
  BY <1>2, <1>6, ComingFacts, SMTT(30) DEF Coming
<1>9. /\ t \in Seq(AnyPieces) /\ Len(t) \in Nat
      /\ \A i \in 1..left : t[i] = rest[i]
      /\ serving # "closed" => Len(t) = left + 1 /\ t[left + 1] = WrittenAt(serving, executed)
      /\ serving = "closed" => Len(t) = left
  <2>1. /\ rest \in Seq(Pieces) /\ Len(rest) = left /\ executed \in Nat
        /\ Len(rest) \in Nat
    BY <1>2, <1>5
  <2> HIDE DEF rest, left
  <2>2. /\ t \in Seq(AnyPieces)
        /\ \A i \in 1..Len(rest) : t[i] = rest[i]
        /\ serving = "closed" => t = rest
        /\ serving # "closed" => /\ Len(t) = Len(rest) + 1
                                /\ t[Len(rest) + 1] = WrittenAt(serving, executed)
    BY <2>1, ComingFacts
  <2> HIDE DEF t
  <2>3. Len(t) \in Nat
    BY <2>2
  <2> QED
    BY <2>1, <2>2, <2>3
<1>10. Consecutive(s) /\ s[1] = Piece(f, Before + g + 1)
  <2>1. s # <<>>
    BY <1>3, <1>6, <1>8
  <2> QED
    BY <1>1, <2>1 DEF Aligned
<1>11. Before \in {0, 2} /\ Before + g + n <= Body + 2 /\ Before + g + 1 >= 1
  <2>1. reading \in {"prefix", "body"}
    BY <1>1 DEF Receive, TypeOK, Aligned
  <2> QED
    BY <1>1, <1>2, <1>3, <2>1 DEF Aligned, Before
<1>12. got' \in Seq(Pieces) /\ Len(got') = g + n
       /\ \A i \in 1..g + n : got'[i] = IF i <= g THEN got[i] ELSE part[i - g]
  BY <1>2, <1>4, <1>5, ConcatProperties
<1>13. \A i \in 1..g : got[i] = Piece(f, Before + i)
  BY <1>1 DEF Aligned
<1> DEFINE b == Before
<1>14. b \in Nat /\ b + g + n <= Body + 2 /\ s[1] = Piece(f, b + g + 1)
  BY <1>10, <1>11
<1> HIDE DEF g, left, f, part, rest, s, t, b
<1>15. Len(t) + n = Len(s) /\ \A i \in 1..Len(t) : t[i] = s[i + n]
  <2>1. Len(t) + n = Len(s)
    BY <1>3, <1>6, <1>8, <1>9
  <2>2. ASSUME NEW i \in 1..left PROVE t[i] = s[i + n]
    <3>1. i + n \in 1..left + n /\ i + n = n + i
      BY <1>3, <1>6
    <3> QED
      BY <1>5, <1>8, <1>9, <3>1
  <2>3. ASSUME serving # "closed" PROVE t[left + 1] = s[(left + 1) + n]
    <3>1. (left + 1) + n = left + n + 1
      BY <1>3, <1>6
    <3> QED
      BY <1>8, <1>9, <2>3, <3>1
  <2>4. \A i \in 1..Len(t) : t[i] = s[i + n]
    BY <1>6, <1>9, <2>2, <2>3
  <2> QED
    BY <2>1, <2>4
<1>16. Consecutive(t)
  <2>1. n \in Nat /\ Len(t) + n <= Len(s)
    BY <1>3, <1>8, <1>9, <1>15
  <2> QED
    BY <1>8, <1>9, <1>10, <1>15, <2>1, PartConsecutive
<1>17. \A k \in 1..Len(s) : b + g + k <= Body + 2 => s[k] = Piece(f, b + g + k)
  <2> SUFFICES ASSUME NEW k \in 1..Len(s), b + g + k <= Body + 2
               PROVE  s[k] = Piece(f, b + g + k)
    OBVIOUS
  <2>1. k \in Int /\ 1 <= k /\ 1 \in 1..Len(s)
    BY <1>8
  <2> DEFINE first == b + g + 1
  <2>2. first \in 1..Body + 3 /\ first <= Body + 2 /\ first + (k - 1) = b + g + k
    BY <1>2, <1>6, <1>14, <2>1
  <2>3. s[1] = Piece(f, first)
    BY <1>14
  <2> HIDE DEF first
  <2>4. s[1].of = f /\ s[1].piece = first
    BY <1>6, <2>2, <2>3, PieceTyped
  <2>5. s[1].piece + (k - 1) <= Body + 2
    BY <2>2, <2>4
  <2>6. s[k] = Piece(s[1].of, s[1].piece + (k - 1))
    BY <1>10, <2>1, <2>5 DEF Consecutive
  <2> QED
    BY <2>2, <2>4, <2>6
<1>18. \A i \in 1..Len(got') : got'[i] = Piece(f, b + i)
  <2> SUFFICES ASSUME NEW i \in 1..g + n PROVE got'[i] = Piece(f, b + i)
    BY <1>12
  <2>1. CASE i <= g
    <3>1. i \in 1..g
      BY <1>3, <1>6, <2>1
    <3> QED
      BY <1>12, <1>13, <2>1, <3>1 DEF b
  <2>2. CASE i > g
    <3> DEFINE k == i - g
    <3>1. k \in 1..n /\ k \in 1..Len(s) /\ k \in 1..left + n /\ b + g + k <= Body + 2
          /\ b + g + k = b + i
      BY <1>2, <1>3, <1>6, <1>8, <1>14, <2>2
    <3>2. got'[i] = part[k]
      BY <1>3, <1>6, <1>12, <2>2
    <3> HIDE DEF k
    <3>3. part[k] = s[k]
      <4>1. part[k] = toMaster[k]
        BY <1>5, <3>1
      <4>2. s[k] = toMaster[k]
        BY <1>8, <3>1
      <4> QED
        BY <4>1, <4>2
    <3> QED
      BY <1>17, <3>1, <3>2, <3>3
  <2> QED
    BY <1>3, <1>6, <2>1, <2>2
<1>19. t # <<>> => t[1] = Piece(f, b + (g + n) + 1)
  <2> SUFFICES ASSUME t # <<>> PROVE t[1] = Piece(f, b + (g + n) + 1)
    OBVIOUS
  <2>1. /\ 1 \in 1..Len(t) /\ n + 1 \in 1..Len(s) /\ n \in 1..Len(s) /\ n < Len(s)
        /\ 1 + n = n + 1
    BY <1>3, <1>8, <1>9, <1>15
  <2>2. t[1] = s[n + 1]
    BY <1>15, <2>1
  <2>3. b + (g + n) + 1 = b + g + (n + 1)
    BY <1>3, <1>6, <1>14
  <2>4. CASE b + g + (n + 1) <= Body + 2
    BY <1>17, <2>1, <2>2, <2>3, <2>4
  <2>5. CASE ~(b + g + (n + 1) <= Body + 2)
    <3>1. b + g + n = Body + 2 /\ b + (g + n) + 1 = Body + 3
      BY <1>2, <1>3, <1>6, <1>14, <2>5
    <3>2. s[n] = Piece(f, Body + 2)
      BY <1>14, <1>17, <2>1, <3>1
    <3>3. s[n].of = f /\ s[n].piece = Body + 2
      <4>1. Body + 2 \in 1..Body + 3 /\ Body + 2 <= Body + 2
        BY <1>2
      <4> QED
        BY <1>6, <3>2, <4>1, PieceTyped
    <3>4. s[n + 1] = Piece(f + 1, 1)
      BY <1>10, <2>1, <3>3 DEF Consecutive
    <3>5. Piece(f + 1, 1) = Piece(f, Body + 3)
      BY <1>2 DEF Piece
    <3> QED
      BY <2>2, <3>1, <3>4, <3>5
  <2> QED
    BY <2>4, <2>5
<1>20. Consecutive(Coming)'
  BY <1>7, <1>16 DEF Consecutive
<1>21. Before' = b /\ Len(got') = g + n /\ Len(delivered)' + 1 = f
  BY <1>4, <1>12 DEF Before, b, f
<1>22. \A i \in 1..Len(got') : got'[i] = Piece(Len(delivered)' + 1, Before' + i)
  BY <1>18, <1>21
<1>23. Coming' # <<>> => Coming'[1] = Piece(Len(delivered)' + 1, Before' + Len(got') + 1)
  BY <1>7, <1>19, <1>21
<1>24. /\ reading = "prefix" => Len(got') + need' = 2
       /\ reading = "body" => Len(got') + need' = Body
       /\ reading # "drop" /\ reading # "idle"
       /\ Len(delivered) <= executed
  <2>1. Len(got') + need' = g + need
    BY <1>2, <1>3, <1>4, <1>6, <1>12
  <2> QED
    BY <1>1, <2>1 DEF Aligned, Receive, g
<1> QED
  BY <1>4, <1>20, <1>22, <1>23, <1>24 DEF Aligned

(* A prefix that read completes is that of the next answer.                *)
LEMMA PrefixAligned ==
  ASSUME TransportInv, cut = Never, PrefixComplete
  PROVE  Aligned'
<1>1. Aligned /\ TypeOK
  BY DEF TransportInv
<1>2. /\ got \in Seq(Pieces) /\ Len(got) \in Nat /\ Len(delivered) \in Nat
      /\ Body \in Nat \ {0} /\ executed \in Nat /\ MaxFrames \in Nat
  BY <1>1, Bounds, Typed
<1> DEFINE f == Len(delivered) + 1
<1>3. /\ Len(got) = 2 /\ Before = 0
      /\ got[1] = Piece(f, 1) /\ got[2] = Piece(f, 2)
  <2>1. Len(got) = 2 /\ Before = 0
    BY <1>1, <1>2 DEF PrefixComplete, Aligned, Before
  <2>2. \A i \in 1..2 : got[i] = Piece(f, Before + i)
    BY <1>1, <2>1 DEF Aligned
  <2> QED
    BY <2>1, <2>2
<1>4. Piece(f, 1) = [of |-> f, piece |-> 1] /\ Piece(f, 2) = [of |-> f, piece |-> 2]
  BY <1>2 DEF Piece
<1>5. f \in 1..MaxFrames
  <2>1. got[1] \in Pieces
    BY <1>2, <1>3, ElementOfSeq
  <2> QED
    BY <1>3, <1>4, <2>1 DEF Pieces
<1>6. got = Prefix(f)
  <2>1. Prefix(f) \in Seq(Pieces) /\ Len(Prefix(f)) = 2 /\ \A k \in 1..2 : Prefix(f)[k] = Piece(f, k)
    BY <1>5, AnswerPieces
  <2>2. Len(got) = Len(Prefix(f)) /\ \A i \in 1..Len(got) : got[i] = Prefix(f)[i]
    BY <1>3, <2>1
  <2> QED
    BY <1>2, <2>1, <2>2, SeqEqual
<1>7. AtPrefix
  BY <1>5, <1>6 DEF AtPrefix
<1>8. /\ reading' = "body" /\ need' = Body /\ got' = <<>>
      /\ UNCHANGED <<delivered, toMaster, serving, executed>>
  BY <1>7 DEF PrefixComplete, endpointVars
<1>9. Coming' = Coming /\ Before' = 2
  BY <1>8 DEF Coming, Before
<1>10. Len(got') = 0 /\ Len(got') + need' = Body
       /\ Before' + Len(got') + 1 = Before + Len(got) + 1
  BY <1>2, <1>3, <1>8, <1>9
<1>11. Coming' # <<>> => Coming'[1] = Piece(Len(delivered)' + 1, Before' + Len(got') + 1)
  BY <1>1, <1>8, <1>9, <1>10 DEF Aligned
<1>12. \A i \in 1..Len(got') : got'[i] = Piece(Len(delivered)' + 1, Before' + i)
  BY <1>10
<1> QED
  BY <1>1, <1>8, <1>9, <1>10, <1>11, <1>12 DEF Aligned, Consecutive

(* A body that read completes is that of the next answer, and its frame    *)
(* was executed.                                                           *)
LEMMA NextDelivered ==
  ASSUME TransportInv, cut = Never, BodyComplete
  PROVE  /\ delivered' = Append(delivered, Len(delivered) + 1)
         /\ Len(delivered) + 1 <= executed
         /\ Len(got) = Body /\ Before = 2
<1>1. Aligned /\ TypeOK /\ Answered
  BY DEF TransportInv
<1>2. /\ got \in Seq(Pieces) /\ Len(got) \in Nat /\ Len(delivered) \in Nat
      /\ Body \in Nat \ {0} /\ executed \in Nat /\ MaxFrames \in Nat
  BY <1>1, Bounds, Typed
<1> DEFINE f == Len(delivered) + 1
<1>3. Len(got) = Body /\ Before = 2 /\ \A i \in 1..Len(got) : got[i] = Piece(f, 2 + i)
  BY <1>1, <1>2 DEF BodyComplete, Aligned, Before
<1>4. 1 \in 1..Len(got) /\ got[1] = [of |-> f, piece |-> 3]
  BY <1>2, <1>3 DEF Piece
<1>5. f \in 1..MaxFrames /\ f <= executed
  <2>1. got[1] \in Pieces /\ got[1].of <= executed
    BY <1>1, <1>2, <1>4, ElementOfSeq DEF Answered
  <2> QED
    BY <1>4, <2>1 DEF Pieces
<1>6. got = BodyOf(f)
  <2>1. BodyOf(f) \in Seq(Pieces) /\ Len(BodyOf(f)) = Body
        /\ \A k \in 1..Body : BodyOf(f)[k] = Piece(f, k + 2)
    BY <1>5, AnswerPieces
  <2>2. \A i \in 1..Len(got) : 2 + i = i + 2
    BY <1>2
  <2>3. Len(got) = Len(BodyOf(f)) /\ \A i \in 1..Len(got) : got[i] = BodyOf(f)[i]
    BY <1>3, <2>1, <2>2
  <2> QED
    BY <1>2, <2>1, <2>3, SeqEqual
<1>7. ASSUME NEW x \in 1..MaxFrames, got = BodyOf(x) PROVE x = f
  <2>1. BodyOf(x)[1].of = x
    BY <1>2, AnswerPieces
  <2> QED
    BY <1>4, <1>7, <2>1
<1>8. FrameOf(got) = f
  <2>1. \E x \in 1..MaxFrames : got = BodyOf(x)
    BY <1>5, <1>6
  <2>2. FrameOf(got) = CHOOSE x \in 1..MaxFrames : got = BodyOf(x)
    BY <2>1 DEF FrameOf
  <2> QED
    BY <1>7, <2>1, <2>2
<1>9. got # <<>>
  BY <1>2, <1>4
<1> QED
  BY <1>3, <1>5, <1>8, <1>9 DEF BodyComplete

LEMMA BodyAligned ==
  ASSUME TransportInv, cut = Never, BodyComplete
  PROVE  Aligned'
<1>1. Aligned /\ TypeOK
  BY DEF TransportInv
<1>2. delivered \in Seq(0..MaxFrames) /\ Len(delivered) \in Nat /\ Body \in Nat \ {0}
      /\ executed \in 0..MaxFrames /\ MaxFrames \in Nat
  BY <1>1, Bounds, Typed
<1>3. /\ reading' = "idle" /\ got' = <<>>
      /\ UNCHANGED <<need, toMaster, serving, executed>>
  BY DEF BodyComplete, endpointVars
<1>4. Coming' = Coming /\ Before' = 0
  BY <1>3 DEF Coming, Before
<1>5. Len(delivered)' = Len(delivered) + 1 /\ Len(delivered)' <= executed'
  <2>1. Len(delivered) + 1 \in 0..MaxFrames /\ Len(delivered) + 1 <= executed
    BY <1>2, NextDelivered
  <2> QED
    BY <1>2, <1>3, <2>1, NextDelivered, AppendProperties
<1>6. Piece(Len(delivered) + 1, Before + Len(got) + 1) = Piece(Len(delivered)' + 1, 1)
  <2>1. Before + Len(got) + 1 = Body + 3
    BY <1>2, NextDelivered
  <2>2. ~(Body + 3 <= Body + 2) /\ 1 <= Body + 2
    BY <1>2
  <2> QED
    BY <1>5, <2>1, <2>2 DEF Piece
<1>7. Before' + Len(got') + 1 = 1 /\ Len(got') = 0
  BY <1>3, <1>4
<1>8. Coming' # <<>> => Coming'[1] = Piece(Len(delivered)' + 1, Before' + Len(got') + 1)
  <2>1. Coming # <<>> => Coming[1] = Piece(Len(delivered) + 1, Before + Len(got) + 1)
    BY <1>1 DEF Aligned
  <2> QED
    BY <1>4, <1>6, <1>7, <2>1
<1>9. \A i \in 1..Len(got') : got'[i] = Piece(Len(delivered)' + 1, Before' + i)
  BY <1>7
<1> QED
  BY <1>1, <1>3, <1>4, <1>5, <1>8, <1>9 DEF Aligned, Consecutive

(* Every step up to a timeout within an answer keeps the alignment.        *)
LEMMA AlignedStep ==
  ASSUME TransportInv, TypeOK', [Next]_vars, cut' = Never
  PROVE  Aligned'
<1>0. TypeOK
  BY DEF TransportInv
<1>1. \/ executed \in Nat /\ Body \in Nat \ {0} /\ Len(delivered) \in Nat /\ Len(delivered) # Never
      \/ cut # Never
  <2>1. Len(delivered) <= executed \/ cut # Never
    BY DEF TransportInv, Aligned
  <2> QED
    BY <1>0, <2>1, Bounds, Typed DEF Never
<1>2. cut = Never /\ executed \in Nat
  <2>1. CASE ReadFails
    BY <1>0, <1>1, <2>1, Typed DEF ReadFails
  <2>2. CASE ~ReadFails
    <3>1. cut' = cut
      BY <2>2 DEF Next, MasterNext, MasterReads, EndpointNext, Write, ReadBegin, Receive,
         PrefixComplete, BodyComplete, DropComplete, MasterExit, LoopTop, Serve, Answer,
         GiveUp, RequestStop, vars
    <3> QED
      BY <1>0, <3>1, Typed
  <2> QED
    BY <2>1, <2>2
<1>3. Aligned
  BY <1>2 DEF TransportInv
<1>4. CASE Write \/ MasterExit \/ RequestStop \/ UNCHANGED vars
  <2>1. UNCHANGED <<reading, need, got, delivered, toMaster, serving, executed>>
    BY <1>4 DEF Write, MasterExit, RequestStop, vars, masterVars, endpointVars
  <2> QED
    BY <1>2, <2>1, SameComing DEF Coming
<1>5. CASE ReadBegin
  <2>1. /\ reading = "idle" /\ reading' = "prefix" /\ need' = 2 /\ got' = <<>>
        /\ UNCHANGED <<delivered, toMaster, serving, executed>>
    BY <1>5 DEF ReadBegin, endpointVars
  <2>2. Coming' = Coming /\ Before' = Before /\ got = <<>>
    BY <1>3, <2>1 DEF Coming, Before, Aligned
  <2>3. Len(got') = 0 /\ Len(got) = 0 /\ Len(got') + need' = 2
    BY <2>1, <2>2
  <2> QED
    BY <1>3, <2>1, <2>2, <2>3 DEF Aligned, Consecutive
<1>6. ASSUME NEW n \in 1..Body + 2, Receive(n)
      PROVE  Aligned'
  BY <1>2, <1>6, ReceiveAligned
<1>7. CASE PrefixComplete
  BY <1>2, <1>7, PrefixAligned
<1>8. CASE BodyComplete
  BY <1>2, <1>8, BodyAligned
<1>9. CASE DropComplete
  BY <1>3, <1>9 DEF DropComplete, Aligned
<1>10. CASE ReadFails
  <2>1. ~WithinAnswer
    BY <1>0, <1>1, <1>2, <1>10, Typed DEF ReadFails
  <2>2. /\ reading = "prefix" /\ got = <<>> /\ reading' = "idle" /\ got' = <<>>
        /\ UNCHANGED <<delivered, toMaster, serving, executed>>
    BY <1>10, <2>1 DEF ReadFails, WithinAnswer, endpointVars
  <2>3. Coming' = Coming /\ Before' = Before
    BY <2>2 DEF Coming, Before
  <2> QED
    BY <1>3, <2>2, <2>3 DEF Aligned, Consecutive
<1>11. CASE LoopTop
  <2>1. UNCHANGED <<reading, need, got, delivered, toMaster, executed>>
    BY <1>11 DEF LoopTop, masterVars
  <2>2. CASE stop
    BY <1>2, <1>11, <2>1, <2>2, ClosedComing DEF LoopTop
  <2>3. CASE ~stop
    <3>1. Coming' = Coming
      BY <1>11, <2>1, <2>3 DEF LoopTop, Coming, ComingAt, WrittenAt
    <3> QED
      BY <1>2, <2>1, <3>1, SameComing
  <2> QED
    BY <2>2, <2>3
<1>12. CASE Serve
  <2>1. UNCHANGED <<reading, need, got, delivered, toMaster>>
    BY <1>12 DEF Serve, masterVars
  <2>2. CASE Head(toSlaves) \in Oversized
    BY <1>2, <1>12, <2>1, <2>2, ClosedComing DEF Serve
  <2>3. CASE Head(toSlaves) \notin Oversized
    <3>1. serving = "waiting" /\ serving' = "prefix" /\ executed' = executed + 1
      BY <1>12, <2>3 DEF Serve
    <3>2. Coming' = Coming
      BY <2>1, <3>1 DEF Coming, ComingAt, WrittenAt
    <3> QED
      BY <1>2, <2>1, <3>1, <3>2, SameComing
  <2> QED
    BY <2>2, <2>3
<1>13. CASE Answer
  <2>1. CASE masterOpen
    BY <1>2, <1>13, <2>1, AnswerAligned
  <2>2. CASE ~masterOpen
    BY <1>2, <1>13, <2>2, ClosedComing DEF Answer, masterVars
  <2> QED
    BY <2>1, <2>2
<1>14. CASE GiveUp
  BY <1>2, <1>14, ClosedComing DEF GiveUp, masterVars
<1> QED
  BY <1>4, <1>5, <1>6, <1>7, <1>8, <1>9, <1>10, <1>11, <1>12, <1>13, <1>14
     DEF Next, MasterNext, MasterReads, EndpointNext

(* Answers read before the first cut stay in front.                        *)
LEMMA CutStep ==
  ASSUME TransportInv, [Next]_vars
  PROVE  cut' # Never => cut' <= Len(delivered')
<1>0. TypeOK
  BY DEF TransportInv
<1>1. cut # Never => cut <= Len(delivered)
  BY DEF TransportInv
<1>2. /\ delivered \in Seq(0..MaxFrames) /\ Len(delivered) \in Nat /\ MaxFrames \in Nat
      /\ cut \in Nat
  BY <1>0, Bounds, Typed
<1>3. CASE ReadFails
  BY <1>1, <1>2, <1>3 DEF ReadFails
<1>4. CASE BodyComplete
  <2>1. cut' = cut /\ (delivered' = delivered \/ delivered' = Append(delivered, FrameOf(got)))
    BY <1>4 DEF BodyComplete
  <2>2. Len(Append(delivered, FrameOf(got))) = Len(delivered) + 1
    BY <1>2, FrameOfTyped, AppendProperties
  <2> QED
    BY <1>1, <1>2, <2>1, <2>2 DEF Never
<1>5. CASE ~ReadFails /\ ~BodyComplete
  <2>1. UNCHANGED <<cut, delivered>>
    BY <1>5 DEF Next, MasterNext, MasterReads, EndpointNext, Write, ReadBegin, Receive,
       PrefixComplete, DropComplete, MasterExit, LoopTop, Serve, Answer, GiveUp,
       RequestStop, vars, masterVars
  <2> QED
    BY <1>1, <2>1 DEF Never
<1> QED
  BY <1>3, <1>4, <1>5

(* The initial state, in which the first prefix comes next.                *)
LEMMA InvInit == Init => TransportInv
<1> SUFFICES ASSUME Init PROVE TransportInv
  OBVIOUS
<1>1. MaxFrames \in Nat /\ Window \in Nat \ {0} /\ Body \in Nat \ {0}
  BY Bounds
<1>2. TypeOK
  <2>1. /\ got \in Seq(Pieces) /\ toMaster \in Seq(Pieces)
        /\ delivered \in Seq(0..MaxFrames) /\ toSlaves \in Seq(1..MaxFrames)
    BY EmptySeq DEF Init
  <2>2. cut \in 0..Never /\ need \in 0..Body + 2 /\ owed \in 0..Window
        /\ sent \in 0..MaxFrames /\ frame \in 0..MaxFrames /\ executed \in 0..MaxFrames
    BY <1>1 DEF Init, Never
  <2> QED
    BY <2>1, <2>2 DEF Init, TypeOK
<1>3. InOrder /\ Answered
  BY DEF Init, InOrder, Answered, Answering
<1>4. Aligned
  <2>1. Coming = <<Piece(1, 1)>>
    BY DEF Init, Coming, ComingAt, WrittenAt
  <2>2. Len(Coming) = 1 /\ Coming[1] = Piece(1, 1)
    BY <2>1
  <2>3. Piece(1, 1).of = 1 /\ Piece(1, 1).piece = 1
    BY <1>1 DEF Piece
  <2>4. Consecutive(Coming)
    <3>1. \A i, j \in 1..Len(Coming) : i = 1 /\ j = 1
      BY <2>2
    <3>2. Piece(Coming[1].of, Coming[1].piece + (1 - 1)) = Coming[1]
      BY <2>2, <2>3
    <3> QED
      BY <2>2, <3>1, <3>2 DEF Consecutive
  <2>5. Len(delivered) = 0 /\ Len(got) = 0 /\ Before = 0 /\ executed = 0
    BY DEF Init, Before
  <2> QED
    BY <2>2, <2>4, <2>5 DEF Init, Aligned
<1> QED
  BY <1>2, <1>3, <1>4 DEF Init, TransportInv

LEMMA InvStep == TransportInv /\ [Next]_vars => TransportInv'
<1> SUFFICES ASSUME TransportInv, [Next]_vars PROVE TransportInv'
  OBVIOUS
<1>1. TypeOK' /\ InOrder' /\ Answered'
  BY TypeStep, OrderStep, AnsweredStep
<1>2. cut' = Never => Aligned'
  BY <1>1, AlignedStep
<1>3. cut' # Never => cut' <= Len(delivered')
  BY CutStep
<1>4. Never' = Never
  BY DEF Never
<1> QED
  BY <1>1, <1>2, <1>3, <1>4 DEF TransportInv

(* The stream of the answers stays aligned with what read expects, as long *)
(* as no receive has timed out within one.                                 *)
THEOREM TransportInvariant == Spec => []TransportInv
BY InvInit, InvStep, PTL DEF Spec

(* Frames and pieces stay within their bounds, after a cut as well.        *)
THEOREM TransportTyped == Spec => []TypeOK
<1>1. TransportInv => TypeOK
  BY DEF TransportInv
<1> QED
  BY <1>1, TransportInvariant, PTL

-----------------------------------------------------------------------------
(* The refinement.                                                         *)

(* Whole and the sequence it is a part of.                                 *)
LEMMA WholeFacts ==
  ASSUME NEW T, NEW seq \in Seq(T)
  PROVE  /\ SubSeq(seq, 1, Len(seq)) = seq
         /\ \A c \in Nat, x \in T :
              c <= Len(seq) => SubSeq(Append(seq, x), 1, c) = SubSeq(seq, 1, c)
<1> DEFINE len == Len(seq)
<1>1. len \in Nat
  OBVIOUS
<1>2. SubSeq(seq, 1, len) = seq
  <2>1. len \in 0..Len(seq)
    BY <1>1
  <2>2. /\ SubSeq(seq, 1, len) \in Seq(T) /\ Len(SubSeq(seq, 1, len)) = len
        /\ \A i \in 1..len : SubSeq(seq, 1, len)[i] = seq[i]
    BY <2>1, Split
  <2> QED
    BY <2>2, SeqEqual
<1>3. ASSUME NEW c \in Nat, NEW x \in T, c <= len
      PROVE  SubSeq(Append(seq, x), 1, c) = SubSeq(seq, 1, c)
  <2> DEFINE longer == Append(seq, x)
  <2>1. longer \in Seq(T) /\ Len(longer) = len + 1 /\ \A i \in 1..len : longer[i] = seq[i]
    BY AppendProperties
  <2> HIDE DEF longer
  <2>2. c \in 0..Len(seq) /\ c \in 0..Len(longer)
    BY <1>1, <1>3, <2>1
  <2>3. /\ SubSeq(seq, 1, c) \in Seq(T) /\ Len(SubSeq(seq, 1, c)) = c
        /\ \A i \in 1..c : SubSeq(seq, 1, c)[i] = seq[i]
    BY <2>2, Split
  <2>4. /\ SubSeq(longer, 1, c) \in Seq(T) /\ Len(SubSeq(longer, 1, c)) = c
        /\ \A i \in 1..c : SubSeq(longer, 1, c)[i] = longer[i]
    BY <2>1, <2>2, Split
  <2>5. \A i \in 1..c : SubSeq(longer, 1, c)[i] = SubSeq(seq, 1, c)[i]
    BY <1>1, <1>3, <2>1, <2>3, <2>4
  <2>6. SubSeq(longer, 1, c) = SubSeq(seq, 1, c)
    BY <2>3, <2>4, <2>5, SeqEqual
  <2> QED
    BY <2>6 DEF longer
<1> QED
  BY <1>2, <1>3

(* Steps that neither write nor execute a frame nor complete a body leave  *)
(* the abstract state alone; the timeout within an answer is one of them.  *)
LEMMA OtherSteps ==
  ASSUME TransportInv, TypeOK', [Next]_vars, ~Write, ~Serve, ~BodyComplete
  PROVE  UNCHANGED <<sent, executed, Whole>>
<1>0. TypeOK
  BY DEF TransportInv
<1>1. delivered \in Seq(0..MaxFrames) /\ Len(delivered) \in Nat
  BY <1>0, Typed
<1>2. UNCHANGED <<sent, executed, delivered>>
  BY DEF Next, MasterNext, MasterReads, EndpointNext, ReadBegin, Receive, PrefixComplete,
     DropComplete, ReadFails, MasterExit, LoopTop, Answer, GiveUp, RequestStop, vars,
     masterVars, endpointVars
<1>3. CASE cut' = cut
  BY <1>2, <1>3 DEF Whole, Never
<1>4. CASE cut' # cut
  <2>1. ReadFails
    BY <1>4 DEF Next, MasterNext, MasterReads, EndpointNext, ReadBegin, Receive,
       PrefixComplete, DropComplete, MasterExit, LoopTop, Answer, GiveUp, RequestStop, vars,
       masterVars, endpointVars
  <2>2. cut = Never /\ cut' = Len(delivered)
    BY <1>4, <2>1 DEF ReadFails
  <2>3. Whole = delivered
    BY <2>2 DEF Whole
  <2>4. Whole' = SubSeq(delivered, 1, Len(delivered))
    BY <1>2, <1>4, <2>2 DEF Whole, Never
  <2> QED
    BY <1>1, <1>2, <2>3, <2>4, WholeFacts
<1> QED
  BY <1>3, <1>4

(* ImplementsFrameChannel: whatever the interleaving of late answers,      *)
(* timeouts, refused frames, stops and exits, the slaves execute every     *)
(* frame once and in order, and up to the first timeout within an answer   *)
(* read hands out the answers whole, in order, each after its execution.   *)
THEOREM TransportImplementsFrameChannel == Spec => ImplementsFrameChannel
<1>1. Init => Channel!Init
  BY DEF Init, Channel!Init, Whole
<1>2. TransportInv /\ TransportInv' /\ [Next]_vars => [Channel!Next]_(Channel!vars)
  <2> SUFFICES ASSUME TransportInv, TransportInv', [Next]_vars
               PROVE  Channel!Next \/ UNCHANGED Channel!vars
    OBVIOUS
  <2>0. TypeOK /\ TypeOK' /\ InOrder
    BY DEF TransportInv
  <2>1. CASE Write
    <3>1. sent' = sent + 1 /\ UNCHANGED <<executed, delivered, cut>>
      BY <2>1 DEF Write, endpointVars
    <3>2. UNCHANGED Whole
      BY <3>1 DEF Whole, Never
    <3> QED
      BY <3>1, <3>2 DEF Channel!Next, Channel!Write
  <2>2. CASE Serve
    <3>1. UNCHANGED <<sent, delivered, cut>>
      BY <2>2 DEF Serve, masterVars
    <3>2. UNCHANGED Whole
      BY <3>1 DEF Whole, Never
    <3>3. CASE Head(toSlaves) \in Oversized
      BY <2>2, <3>1, <3>2, <3>3 DEF Serve, Channel!vars
    <3>4. CASE Head(toSlaves) \notin Oversized
      <4>1. Len(toSlaves) = sent - executed /\ Len(toSlaves) > 0
        BY <2>0, <2>2, Typed DEF Serve, InOrder
      <4>2. executed < sent
        BY <2>0, <4>1, Typed
      <4>3. executed' = executed + 1
        BY <2>2, <3>4 DEF Serve
      <4> QED
        BY <3>1, <3>2, <4>2, <4>3 DEF Channel!Next, Channel!Execute
    <3> QED
      BY <3>3, <3>4
  <2>3. CASE BodyComplete
    <3>1. UNCHANGED <<sent, executed, cut>>
      BY <2>3 DEF BodyComplete, endpointVars
    <3>2. CASE cut = Never
      <4>1. delivered' = Append(delivered, Len(delivered) + 1) /\ Len(delivered) + 1 <= executed
        BY <2>3, <3>2, NextDelivered
      <4>2. Len(delivered) \in Nat /\ executed \in Nat
        BY <2>0, Bounds, Typed
      <4>3. Whole = delivered /\ Whole' = delivered'
        BY <3>1, <3>2 DEF Whole, Never
      <4>4. Len(delivered) < executed
        BY <4>1, <4>2
      <4>5. Channel!Deliver
        BY <3>1, <4>1, <4>3, <4>4 DEF Channel!Deliver
      <4> QED
        BY <4>5 DEF Channel!Next
    <3>3. CASE cut # Never
      <4>1. cut <= Len(delivered) /\ cut \in Nat /\ delivered \in Seq(0..MaxFrames)
        BY <2>0, <3>3, Bounds, Typed DEF TransportInv
      <4>2. delivered' = delivered \/ delivered' = Append(delivered, FrameOf(got))
        BY <2>3 DEF BodyComplete
      <4>3. SubSeq(delivered', 1, cut) = SubSeq(delivered, 1, cut)
        BY <4>1, <4>2, FrameOfTyped, WholeFacts
      <4>4. UNCHANGED Whole
        BY <3>1, <3>3, <4>3 DEF Whole, Never
      <4> QED
        BY <3>1, <4>4 DEF Channel!vars
    <3> QED
      BY <3>2, <3>3
  <2>4. CASE ~Write /\ ~Serve /\ ~BodyComplete
    <3>1. UNCHANGED <<sent, executed, Whole>>
      BY <2>0, <2>4, OtherSteps
    <3> QED
      BY <3>1 DEF Channel!vars
  <2> QED
    BY <2>1, <2>2, <2>3, <2>4
<1> QED
  BY <1>1, <1>2, TransportInvariant, PTL DEF Spec, ImplementsFrameChannel, Channel!Spec
===============================================================================
