--------------------------- MODULE PacketsProofs ---------------------------
(***************************************************************************)
(* Proofs about the remote protocol of the GDB stub, for any processes,    *)
(* threads, registers, memory and bytes.                                   *)
(*                                                                         *)
(* The argument: while GDB waits for an answer the program stands still,   *)
(* so the threads that it has been told of since the stop exist (Known),   *)
(* and with them the one that the stub looks up.  A packet finds the same  *)
(* thread before and after it, and its answer is compared with that one.   *)
(* Whatever runs between two stops may end the selected thread, which is   *)
(* why the selection is replaced when the stop is reported.                *)
(***************************************************************************)
EXTENDS Packets, ListLemmas, FiniteSetTheorems, SequenceTheorems, TLAPS

(* Who is known to exist. *)
Known ==
  /\ gdb.cur \in Existing
  /\ gdb.client = "waiting" => gdb.posted \in Existing
  /\ gdb.client = "detached" => gdb.attached = <<>> /\ gdb.thread_for_operation = <<>> /\ gdb.known = {}
  /\ gdb.client = "stopped" =>
       /\ gdb.known \subseteq Existing
       /\ gdb.thread_for_operation # <<>> => gdb.thread_for_operation = gdb.selected /\ gdb.selected \in Selectable
  /\ gdb.failed # "threadGone"

(* The inductive invariant. *)
Inv == GdbTypeOK /\ Known /\ RepliesRight

-----------------------------------------------------------------------------
(* Sequences of sequences.                                                  *)

(* FlattenSeq puts its arguments one behind the other: the n-th begins after L[n - 1] elements. *)
LEMMA FlattenProperties ==
    ASSUME NEW S, NEW seqs \in Seq(Seq(S))
    PROVE  /\ FlattenSeq(seqs) \in Seq(S)
           /\ \E L \in [0..Len(seqs) -> Nat] :
                /\ L[0] = 0
                /\ \A n \in 1..Len(seqs) : L[n] = L[n - 1] + Len(seqs[n])
                /\ Len(FlattenSeq(seqs)) = L[Len(seqs)]
                /\ \A n \in 1..Len(seqs) : \A j \in 1..Len(seqs[n]) : FlattenSeq(seqs)[L[n - 1] + j] = seqs[n][j]
<1> DEFINE N == Len(seqs)
           Step(f, i) == IF i = 1 THEN seqs[i] ELSE f[i - 1] \o seqs[i]
           G == {n \in 0..N : \E f \in [1..n -> Seq(S)] : f = [i \in 1..n |-> Step(f, i)]}
<1>1. N \in Nat /\ \A i \in 1..N : seqs[i] \in Seq(S)
  BY LenProperties, ElementOfSeq
<1> HIDE DEF N
<1>2. 0 \in G
  <2> DEFINE f == [i \in 1..0 |-> <<>>]
  <2>1. f \in [1..0 -> Seq(S)] /\ f = [i \in 1..0 |-> Step(f, i)]
    OBVIOUS
  <2> HIDE DEF f, Step
  <2>2. 0 \in 0..N
    BY <1>1
  <2> QED BY <2>1, <2>2
<1>3. ASSUME NEW n \in 1..N, n - 1 \in G PROVE n \in G
  <2>1. PICK f \in [1..(n - 1) -> Seq(S)] : f = [i \in 1..(n - 1) |-> Step(f, i)]
    BY <1>3
  <2>2. n \in 0..N /\ seqs[n] \in Seq(S)
    BY <1>1
  <2> DEFINE g == [i \in 1..n |-> IF i < n THEN f[i] ELSE Step(f, n)]
  <2>3. Step(f, n) \in Seq(S)
    <3>1. CASE n = 1
      BY <2>2, <3>1
    <3>2. CASE n # 1
      <4>1. n - 1 \in 1..(n - 1)
        BY <3>2
      <4>2. f[n - 1] \in Seq(S)
        BY <4>1
      <4>3. PICK p : p = f[n - 1]
        OBVIOUS
      <4>4. p \o seqs[n] \in Seq(S)
        BY <2>2, <4>2, <4>3, ConcatProperties
      <4> QED BY <3>2, <4>3, <4>4
    <3> QED BY <3>1, <3>2
  <2>4. g \in [1..n -> Seq(S)]
    <3> HIDE DEF Step
    <3>1. \A i \in 1..n : i < n => i \in 1..(n - 1)
      OBVIOUS
    <3> QED BY <2>3, <3>1
  <2>5. ASSUME NEW i \in 1..n PROVE g[i] = Step(g, i)
    <3>1. i # 1 => i - 1 \in 1..n /\ g[i - 1] = f[i - 1]
      OBVIOUS
    <3>2. CASE i < n
      <4>1. i \in 1..(n - 1) /\ g[i] = f[i]
        BY <3>2
      <4>2. f[i] = Step(f, i)
        <5> HIDE DEF Step
        <5> QED BY <2>1, <4>1
      <4>3. Step(f, i) = Step(g, i)
        BY <3>1
      <4> QED BY <4>1, <4>2, <4>3
    <3>3. CASE i = n
      <4>1. g[i] = Step(f, n)
        BY <3>3
      <4>2. Step(f, n) = Step(g, n)
        BY <3>1, <3>3
      <4> QED BY <3>3, <4>1, <4>2
    <3> QED BY <3>2, <3>3
  <2> HIDE DEF g, Step
  <2>6. g = [i \in 1..n |-> Step(g, i)]
    BY <2>4, <2>5
  <2> QED BY <2>2, <2>4, <2>6
<1>4. \E f : f = [i \in 1..N |-> Step(f, i)]
  <2>1. N \in G
    <3> HIDE DEF G
    <3>1. \A i \in 0..N : i \in G
      BY <1>1, <1>2, <1>3, UpTo
    <3> QED BY <1>1, <3>1
  <2> QED BY <2>1
<1> DEFINE F == CHOOSE f : f = [i \in 1..N |-> Step(f, i)]
<1>5. F = [i \in 1..N |-> Step(F, i)]
  <2> HIDE DEF Step
  <2> QED BY <1>4
<1>6. FlattenSeq(seqs) = IF N = 0 THEN seqs ELSE F[N]
  BY DEF FlattenSeq, N
<1> HIDE DEF F
<1>7. \A n \in 1..N : F[n] = Step(F, n)
  <2> HIDE DEF Step
  <2> QED BY <1>5
<1> DEFINE L == [n \in 0..N |-> IF n = 0 THEN 0 ELSE Len(F[n])]
           Placed(n) == \A m \in 1..n : \A j \in 1..Len(seqs[m]) : /\ L[m - 1] + j \in 1..Len(F[n])
                                                                    /\ F[n][L[m - 1] + j] = seqs[m][j]
           H == {n \in 0..N : n # 0 => F[n] \in Seq(S) /\ L[n] = L[n - 1] + Len(seqs[n]) /\ Placed(n)}
<1>8. 0 \in H
  BY <1>1
<1>9. ASSUME NEW n \in 1..N, n - 1 \in H PROVE n \in H
  <2>0. /\ n \in 0..N /\ n - 1 \in 0..N /\ seqs[n] \in Seq(S) /\ Len(seqs[n]) \in Nat
        /\ L[n] = Len(F[n])
    <3>1. n \in 0..N /\ n - 1 \in 0..N /\ seqs[n] \in Seq(S)
      BY <1>1
    <3>2. PICK s \in Seq(S) : s = seqs[n]
      BY <3>1
    <3>3. Len(s) \in Nat
      BY LenProperties
    <3> QED BY <3>1, <3>2, <3>3
  <2>1. CASE n = 1
    <3>1. F[1] = seqs[1] /\ F[1] \in Seq(S)
      BY <1>7, <2>0, <2>1
    <3>2. L[0] = 0 /\ L[1] = 0 + Len(seqs[1])
      BY <2>0, <2>1, <3>1
    <3>3. Placed(1)
      <4>1. ASSUME NEW m \in 1..1, NEW j \in 1..Len(seqs[m])
            PROVE  L[m - 1] + j \in 1..Len(F[1]) /\ F[1][L[m - 1] + j] = seqs[m][j]
        <5>1. m = 1 /\ m - 1 = 0
          OBVIOUS
        <5>2. L[m - 1] + j = j
          BY <3>2, <5>1
        <5> QED BY <3>1, <5>1, <5>2
      <4> QED BY <4>1
    <3> HIDE DEF Placed, L
    <3> QED BY <2>0, <2>1, <3>1, <3>2, <3>3
  <2>2. CASE n # 1
    <3>1. PICK p \in Seq(S) : p = F[n - 1] /\ Placed(n - 1)
      <4> HIDE DEF Placed, L
      <4> QED BY <1>9, <2>2
    <3>2. PICK s \in Seq(S) : s = seqs[n]
      BY <2>0
    <3>3. F[n] = p \o s
      <4> HIDE DEF L, F
      <4> QED BY <1>7, <2>2, <3>1, <3>2
    <3>4. /\ p \o s \in Seq(S) /\ Len(p) \in Nat /\ Len(s) \in Nat /\ Len(p \o s) = Len(p) + Len(s)
          /\ \A i \in 1..(Len(p) + Len(s)) : (p \o s)[i] = IF i <= Len(p) THEN p[i] ELSE s[i - Len(p)]
      BY ConcatProperties, LenProperties
    <3>5. L[n - 1] = Len(p) /\ L[n] = Len(p) + Len(s)
      <4>1. L[n - 1] = Len(p)
        BY <2>0, <2>2, <3>1
      <4>2. L[n] = Len(p) + Len(s)
        BY <2>0, <3>3, <3>4
      <4> QED BY <4>1, <4>2
    <3>6. Placed(n)
      <4>1. ASSUME NEW m \in 1..n, NEW j \in 1..Len(seqs[m])
            PROVE  L[m - 1] + j \in 1..Len(F[n]) /\ F[n][L[m - 1] + j] = seqs[m][j]
        <5>1. CASE m = n
          <6>1. j \in 1..Len(s) /\ L[m - 1] = Len(p)
            BY <3>2, <3>5, <5>1
          <6> HIDE DEF L
          <6>2. Len(p) + j \in 1..(Len(p) + Len(s)) /\ ~(Len(p) + j <= Len(p)) /\ (Len(p) + j) - Len(p) = j
            BY <3>4, <6>1
          <6>3. (p \o s)[Len(p) + j] = s[j]
            BY <3>4, <6>2
          <6> QED BY <3>2, <3>3, <3>4, <5>1, <6>1, <6>2, <6>3
        <5>2. CASE m # n
          <6> DEFINE k == L[m - 1] + j
          <6>1. m \in 1..(n - 1)
            BY <5>2
          <6>2. k \in 1..Len(p) /\ p[k] = seqs[m][j]
            <7> HIDE DEF L
            <7> QED BY <3>1, <6>1
          <6> HIDE DEF k, L
          <6>3. k \in 1..(Len(p) + Len(s)) /\ k <= Len(p)
            BY <3>4, <6>2
          <6>4. (p \o s)[k] = p[k]
            BY <3>4, <6>3
          <6> QED BY <3>3, <3>4, <6>2, <6>3, <6>4 DEF k
        <5> QED BY <5>1, <5>2
      <4> QED BY <4>1
    <3> HIDE DEF Placed, L
    <3> QED BY <2>0, <2>2, <3>2, <3>3, <3>4, <3>5, <3>6
  <2> QED BY <2>1, <2>2
<1>10. \A n \in 0..N : n \in H
  <2> HIDE DEF H
  <2> QED BY <1>1, <1>8, <1>9, UpTo
<1>11. \A n \in 1..N : F[n] \in Seq(S) /\ L[n] = L[n - 1] + Len(seqs[n]) /\ Placed(n)
  <2> HIDE DEF L, Placed
  <2>1. \A n \in 1..N : n \in 0..N /\ n # 0
    OBVIOUS
  <2> QED BY <1>10, <2>1
<1>12. L \in [0..N -> Nat] /\ L[0] = 0
  <2>1. ASSUME NEW n \in 1..N PROVE Len(F[n]) \in Nat
    <3>1. PICK f \in Seq(S) : f = F[n]
      <4> HIDE DEF L, Placed
      <4> QED BY <1>11
    <3> QED BY <3>1, LenProperties
  <2>2. \A n \in 0..N : n # 0 => n \in 1..N
    BY <1>1
  <2> QED BY <1>1, <2>1, <2>2
<1>13. CASE N = 0
  <2>1. FlattenSeq(seqs) = seqs /\ seqs = <<>>
    BY <1>6, <1>13, EmptySeq DEF N
  <2>2. FlattenSeq(seqs) \in Seq(S) /\ Len(FlattenSeq(seqs)) = 0
    BY <2>1, EmptySeq
  <2>3. Len(FlattenSeq(seqs)) = L[N] /\ \A n \in 1..N : FALSE
    <3> HIDE DEF L
    <3> QED BY <1>12, <1>13, <2>2
  <2> HIDE DEF L
  <2> QED BY <1>12, <2>2, <2>3 DEF N
<1>14. CASE N # 0
  <2>1. N \in 1..N /\ N \in 0..N
    BY <1>1, <1>14
  <2>2. FlattenSeq(seqs) = F[N] /\ F[N] \in Seq(S)
    <3> HIDE DEF L, Placed
    <3> QED BY <1>6, <1>11, <1>14, <2>1
  <2>3. Len(FlattenSeq(seqs)) = L[N]
    BY <1>14, <2>1, <2>2
  <2>4. \A n \in 1..N : \A j \in 1..Len(seqs[n]) : FlattenSeq(seqs)[L[n - 1] + j] = seqs[n][j]
    <3>1. Placed(N)
      <4> HIDE DEF L, Placed
      <4> QED BY <1>11, <2>1
    <3> HIDE DEF L
    <3> QED BY <2>2, <3>1
  <2>5. \A n \in 1..N : L[n] = L[n - 1] + Len(seqs[n])
    <3> HIDE DEF L, Placed
    <3> QED BY <1>11
  <2> HIDE DEF L
  <2> QED BY <1>12, <2>2, <2>3, <2>4, <2>5 DEF N
<1> QED BY <1>13, <1>14
-----------------------------------------------------------------------------
(* Escapes.                                                                 *)

Piece(byte) == IF byte \in Special THEN <<Escape, Flip(byte)>> ELSE <<byte>>
Pieces(data) == [i \in DOMAIN data |-> Piece(data[i])]

(* Changing bit 5 twice changes nothing. *)
LEMMA FlipTwice ==
    ASSUME NEW b \in 0..255
    PROVE  Flip(b) \in Int /\ Flip(Flip(b)) = b
<1>1. PICK q \in Int, r \in 0..31 : b = 32 * q + r
  <2>1. b \in Int
    OBVIOUS
  <2>2. \A m \in Int : m = 32 * (m \div 32) + (m % 32) /\ m \div 32 \in Int /\ (m % 32) \in Int
    OBVIOUS
  <2>3. \A m \in Int : 0 <= (m % 32) /\ (m % 32) < 32
    OBVIOUS
  <2>4. (b % 32) \in 0..31
    BY <2>1, <2>2, <2>3
  <2> QED BY <2>1, <2>2, <2>4
<1>2. \A p \in Int : (32 * p + r) \div 32 = p
  OBVIOUS
<1>3. Flip(b) = IF q % 2 = 1 THEN 32 * (q - 1) + r ELSE 32 * (q + 1) + r
  <2>1. b \div 32 = q
    BY <1>1, <1>2
  <2> QED BY <1>1, <2>1 DEF Flip
<1>4. CASE q % 2 = 1
  <2>1. Flip(b) = 32 * (q - 1) + r /\ (q - 1) % 2 # 1
    BY <1>3, <1>4
  <2>2. (32 * (q - 1) + r) \div 32 = q - 1
    BY <1>2
  <2>3. Flip(Flip(b)) = Flip(b) + 32
    BY <2>1, <2>2 DEF Flip
  <2> QED BY <1>1, <2>1, <2>3
<1>5. CASE q % 2 # 1
  <2>1. Flip(b) = 32 * (q + 1) + r /\ (q + 1) % 2 = 1
    BY <1>3, <1>5
  <2>2. (32 * (q + 1) + r) \div 32 = q + 1
    BY <1>2
  <2>3. Flip(Flip(b)) = Flip(b) - 32
    BY <2>1, <2>2 DEF Flip
  <2> QED BY <1>1, <2>1, <2>3
<1> QED BY <1>4, <1>5

(* The piece of a byte begins with an escape exactly if it has two elements. *)
LEMMA PieceProperties ==
    ASSUME NEW b \in 0..255
    PROVE  /\ Piece(b) \in Seq(Int)
           /\ Piece(b)[1] = Escape <=> b \in Special
           /\ Len(Piece(b)) = IF b \in Special THEN 2 ELSE 1
           /\ b \in Special => Piece(b)[2] = Flip(b)
           /\ b \notin Special => Piece(b)[1] = b
<1>1. Flip(b) \in Int /\ Escape \in Int /\ Escape \in Special
  BY FlipTwice DEF Escape, Special
<1>2. CASE b \in Special
  <2>1. Piece(b) = <<Escape, Flip(b)>>
    BY <1>2 DEF Piece
  <2>2. Len(Piece(b)) = 2 /\ Piece(b)[1] = Escape /\ Piece(b)[2] = Flip(b) /\ Piece(b) \in Seq(Int)
    BY <1>1, <2>1
  <2> QED BY <1>2, <2>2
<1>3. CASE b \notin Special
  <2>1. Piece(b) = <<b>> /\ b # Escape
    BY <1>1, <1>3 DEF Piece
  <2>2. Len(Piece(b)) = 1 /\ Piece(b)[1] = b /\ Piece(b) \in Seq(Int)
    BY <2>1
  <2> QED BY <1>3, <2>1, <2>2
<1> QED BY <1>2, <1>3

(* start has moved past the escapes before it: to the piece of the next byte. *)
LEMMA EscapesCounted ==
    ASSUME NEW data \in Seq(0..255), NEW text, NEW L \in [0..Len(data) -> Nat], L[0] = 0,
           \A n \in 1..Len(data) : L[n] = L[n - 1] + Len(Piece(data[n])),
           \A n \in 1..Len(data) : \A j \in 1..Len(Piece(data[n])) : text[L[n - 1] + j] = Piece(data[n])[j],
           NEW offset \in 0..Len(data)
    PROVE  EscapesBefore(text, offset) \in Int /\ offset + EscapesBefore(text, offset) = L[offset]
<1> DEFINE Step(f, n) == IF n = 0 THEN 0 ELSE f[n - 1] + (IF text[n + f[n - 1]] = Escape THEN 1 ELSE 0)
           G == {n \in 0..offset : \E f \in [0..n -> Nat] : f = [i \in 0..n |-> Step(f, i)]}
<1>0. offset \in Nat /\ Len(data) \in Nat
  BY LenProperties
<1>1. 0 \in G
  <2> DEFINE f == [i \in 0..0 |-> 0]
  <2>1. f \in [0..0 -> Nat] /\ f = [i \in 0..0 |-> Step(f, i)]
    OBVIOUS
  <2> HIDE DEF f, Step
  <2>2. 0 \in 0..offset
    BY <1>0
  <2> QED BY <2>1, <2>2
<1>2. ASSUME NEW n \in 1..offset, n - 1 \in G PROVE n \in G
  <2>1. PICK f \in [0..(n - 1) -> Nat] : f = [i \in 0..(n - 1) |-> Step(f, i)]
    BY <1>2
  <2>2. n - 1 \in 0..(n - 1) /\ n \in 0..offset
    BY <1>0
  <2> DEFINE g == [i \in 0..n |-> IF i < n THEN f[i] ELSE Step(f, n)]
  <2>3. Step(f, n) \in Nat
    <3>1. f[n - 1] \in Nat
      BY <2>2
    <3> QED BY <3>1
  <2>4. g \in [0..n -> Nat]
    <3> HIDE DEF Step
    <3>1. \A i \in 0..n : i < n => i \in 0..(n - 1)
      OBVIOUS
    <3> QED BY <2>3, <3>1
  <2>5. ASSUME NEW i \in 0..n PROVE g[i] = Step(g, i)
    <3>1. i # 0 => i - 1 \in 0..n /\ g[i - 1] = f[i - 1]
      OBVIOUS
    <3>2. CASE i < n
      <4>1. i \in 0..(n - 1) /\ g[i] = f[i]
        BY <3>2
      <4>2. f[i] = Step(f, i)
        <5> HIDE DEF Step
        <5> QED BY <2>1, <4>1
      <4>3. Step(f, i) = Step(g, i)
        BY <3>1
      <4> QED BY <4>1, <4>2, <4>3
    <3>3. CASE i = n
      <4>1. g[i] = Step(f, n)
        BY <3>3
      <4>2. Step(f, n) = Step(g, n)
        BY <3>1, <3>3
      <4> QED BY <3>3, <4>1, <4>2
    <3> QED BY <3>2, <3>3
  <2> HIDE DEF g, Step
  <2>6. g = [i \in 0..n |-> Step(g, i)]
    BY <2>4, <2>5
  <2> QED BY <2>2, <2>4, <2>6
<1>3. \E f : f = [i \in 0..offset |-> Step(f, i)]
  <2>1. offset \in G
    <3> HIDE DEF G
    <3>1. \A i \in 0..offset : i \in G
      BY <1>0, <1>1, <1>2, UpTo
    <3> QED BY <1>0, <3>1
  <2> QED BY <2>1
<1> DEFINE F == CHOOSE f : f = [i \in 0..offset |-> Step(f, i)]
<1>4. F = [i \in 0..offset |-> Step(F, i)]
  <2> HIDE DEF Step
  <2> QED BY <1>3
<1>5. EscapesBefore(text, offset) = F[offset]
  BY DEF EscapesBefore
<1> HIDE DEF F
<1>6. \A n \in 0..offset : F[n] = Step(F, n)
  <2> HIDE DEF Step
  <2> QED BY <1>4
<1> DEFINE H == {n \in 0..offset : F[n] \in Int /\ n + F[n] = L[n]}
<1>7. 0 \in H
  <2>1. 0 \in 0..offset
    BY <1>0
  <2>2. F[0] = 0
    BY <1>6, <2>1
  <2> QED BY <2>1, <2>2
<1>8. ASSUME NEW n \in 1..offset, n - 1 \in H PROVE n \in H
  <2>1. n \in 0..offset /\ n \in 1..Len(data) /\ n # 0 /\ n - 1 \in 0..Len(data)
    BY <1>0
  <2>2. data[n] \in 0..255
    BY <2>1, ElementOfSeq
  <2>3. PICK x \in Int, y \in Nat : x = F[n - 1] /\ y = L[n - 1] /\ (n - 1) + x = y
    BY <1>8, <2>1
  <2>4. F[n] = x + (IF text[n + x] = Escape THEN 1 ELSE 0)
    <3>1. F[n] = Step(F, n)
      <4> HIDE DEF Step
      <4> QED BY <1>6, <2>1
    <3> QED BY <2>1, <2>3, <3>1
  <2>5. text[n + x] = Piece(data[n])[1]
    <3>1. 1 \in 1..Len(Piece(data[n]))
      <4>1. Len(Piece(data[n])) = 1 \/ Len(Piece(data[n])) = 2
        BY <2>2, PieceProperties
      <4>2. PICK l \in {1, 2} : l = Len(Piece(data[n]))
        BY <4>1
      <4>3. 1 \in 1..l
        OBVIOUS
      <4> QED BY <4>2, <4>3
    <3>2. text[L[n - 1] + 1] = Piece(data[n])[1]
      BY <2>1, <3>1
    <3>3. L[n - 1] + 1 = n + x
      BY <2>3
    <3> QED BY <3>2, <3>3
  <2>6. L[n] = y + Len(Piece(data[n]))
    BY <2>1, <2>3
  <2>7. CASE data[n] \in Special
    <3>1. F[n] = x + 1 /\ L[n] = y + 2
      BY <2>2, <2>4, <2>5, <2>6, <2>7, PieceProperties
    <3>2. F[n] \in Int /\ n + F[n] = L[n]
      <4>1. n + (x + 1) = y + 2
        BY <2>3
      <4> QED BY <3>1, <4>1
    <3> QED BY <2>1, <3>2
  <2>8. CASE data[n] \notin Special
    <3>1. F[n] = x /\ L[n] = y + 1
      <4>1. text[n + x] # Escape /\ Len(Piece(data[n])) = 1
        BY <2>2, <2>5, <2>8, PieceProperties
      <4> QED BY <2>3, <2>4, <2>6, <4>1
    <3> QED BY <2>1, <2>3, <3>1
  <2> QED BY <2>7, <2>8
<1>9. offset \in H
  <2> HIDE DEF H
  <2>1. \A n \in 0..offset : n \in H
    BY <1>0, <1>7, <1>8, UpTo
  <2> QED BY <1>0, <2>1
<1> QED BY <1>5, <1>9

(* What GDB encodes is what the stub writes. *)
LEMMA DecodedEncoded ==
    ASSUME NEW data \in Seq(0..255), NEW n \in 1..Len(data)
    PROVE  Decoded(Encoded(data), Len(data))[n] = data[n]
<1>0. Len(data) \in Nat /\ DOMAIN data = 1..Len(data) /\ \A i \in 1..Len(data) : data[i] \in 0..255
  BY LenProperties, ElementOfSeq
<1>1. Pieces(data) \in Seq(Seq(Int)) /\ Len(Pieces(data)) = Len(data)
      /\ \A i \in 1..Len(data) : Pieces(data)[i] = Piece(data[i])
  <2>1. \A i \in 1..Len(data) : Piece(data[i]) \in Seq(Int)
    BY <1>0, PieceProperties
  <2>2. Pieces(data) = [i \in 1..Len(data) |-> Piece(data[i])]
    BY <1>0 DEF Pieces
  <2>3. Pieces(data) \in [1..Len(data) -> Seq(Int)]
    BY <2>1, <2>2
  <2>4. Pieces(data) \in Seq(Seq(Int))
    BY <1>0, <2>3, SeqDef
  <2>5. Len(Pieces(data)) = Len(data)
    BY <1>0, <2>2, <2>4, LenProperties
  <2> QED BY <2>2, <2>4, <2>5
<1>2. Encoded(data) = FlattenSeq(Pieces(data))
  BY DEF Encoded, Pieces, Piece
<1> DEFINE text == Encoded(data)
<1>3. PICK L \in [0..Len(data) -> Nat] :
        /\ L[0] = 0
        /\ \A m \in 1..Len(data) : L[m] = L[m - 1] + Len(Piece(data[m]))
        /\ \A m \in 1..Len(data) : \A j \in 1..Len(Piece(data[m])) : text[L[m - 1] + j] = Piece(data[m])[j]
  <2>1. PICK L \in [0..Len(Pieces(data)) -> Nat] :
          /\ L[0] = 0
          /\ \A m \in 1..Len(Pieces(data)) : L[m] = L[m - 1] + Len(Pieces(data)[m])
          /\ \A m \in 1..Len(Pieces(data)) : \A j \in 1..Len(Pieces(data)[m]) :
               FlattenSeq(Pieces(data))[L[m - 1] + j] = Pieces(data)[m][j]
    BY <1>1, FlattenProperties
  <2>2. L \in [0..Len(data) -> Nat]
    BY <1>1
  <2>3. \A m \in 1..Len(data) : L[m] = L[m - 1] + Len(Piece(data[m]))
    BY <1>1, <2>1
  <2>4. \A m \in 1..Len(data) : \A j \in 1..Len(Piece(data[m])) : text[L[m - 1] + j] = Piece(data[m])[j]
    BY <1>1, <1>2, <2>1
  <2> QED BY <2>1, <2>2, <2>3, <2>4
<1>4. n - 1 \in 0..Len(data) /\ data[n] \in 0..255
  BY <1>0
<1> DEFINE before == EscapesBefore(text, n - 1)
<1>5. before \in Int /\ (n - 1) + before = L[n - 1]
  <2> HIDE DEF text
  <2> QED BY <1>3, <1>4, EscapesCounted
<1> DEFINE at == n + before
<1>6. Decoded(text, Len(data))[n] = IF text[at] = Escape THEN Flip(text[at + 1]) ELSE text[at]
  <2> HIDE DEF text
  <2> QED BY DEF Decoded
<1> HIDE DEF text
<1>7. PICK k \in Nat : k = L[n - 1]
  BY <1>4
<1>8. text[k + 1] = Piece(data[n])[1] /\ (data[n] \in Special => text[k + 2] = Flip(data[n]))
  <2>1. 1 \in 1..Len(Piece(data[n])) /\ (data[n] \in Special => 2 \in 1..Len(Piece(data[n])))
    <3>1. Len(Piece(data[n])) = IF data[n] \in Special THEN 2 ELSE 1
      BY <1>4, PieceProperties
    <3> QED BY <3>1
  <2>2. data[n] \in Special => Piece(data[n])[2] = Flip(data[n])
    BY <1>4, PieceProperties
  <2> QED BY <1>3, <1>7, <2>1, <2>2
<1>9. at = k + 1 /\ at + 1 = k + 2
  BY <1>5, <1>7
<1> HIDE DEF at, before
<1>11. CASE data[n] \in Special
  <2>1. text[at] = Escape /\ text[at + 1] = Flip(data[n])
    BY <1>4, <1>8, <1>9, <1>11, PieceProperties
  <2>2. Flip(Flip(data[n])) = data[n]
    BY <1>4, FlipTwice
  <2> QED BY <1>6, <2>1, <2>2 DEF text
<1>12. CASE data[n] \notin Special
  <2>1. text[at] # Escape /\ text[at] = data[n]
    BY <1>4, <1>8, <1>9, <1>12, PieceProperties
  <2> QED BY <1>6, <2>1 DEF text
<1> QED BY <1>11, <1>12
-----------------------------------------------------------------------------
(* Threads.                                                                 *)

LEMMA ExistingIs ==
    ASSUME GdbTypeOK
    PROVE  /\ Existing \subseteq Pids \X Tids
           /\ \A p \in Pids : \A t : <<p, t>> \in Existing <=> t \in ToSet(gdb.threads[p])
           /\ \A p \in Pids : \A i \in 1..Len(gdb.threads[p]) : <<p, gdb.threads[p][i]>> \in Existing
<1>1. \A p \in Pids : gdb.threads[p] \in Seq(Tids)
  BY DEF GdbTypeOK, State
<1>2. ASSUME NEW p \in Pids, NEW t PROVE <<p, t>> \in Existing <=> t \in ToSet(gdb.threads[p])
  BY DEF Existing, Thread
<1>3. ASSUME NEW p \in Pids, NEW i \in 1..Len(gdb.threads[p])
      PROVE  gdb.threads[p][i] \in ToSet(gdb.threads[p])
  <2>1. PICK q \in Seq(Tids) : q = gdb.threads[p]
    BY <1>1
  <2>2. i \in DOMAIN q
    BY <1>3, <2>1, LenProperties
  <2> QED BY <2>1, <2>2 DEF ToSet
<1>4. ASSUME NEW p \in Pids, NEW t \in ToSet(gdb.threads[p]) PROVE t \in Tids
  <2>1. PICK q \in Seq(Tids) : q = gdb.threads[p]
    BY <1>1
  <2>2. PICK i \in DOMAIN q : t = q[i]
    BY <1>4, <2>1 DEF ToSet
  <2>3. i \in 1..Len(q)
    BY <2>2, LenProperties
  <2> QED BY <2>2, <2>3, ElementOfSeq
<1>5. Existing \subseteq Pids \X Tids
  BY <1>4 DEF Existing, Thread
<1> QED BY <1>2, <1>3, <1>5

(* The stub looks up a thread that exists, unless it has none to look up. *)
LEMMA TargetKnown ==
    ASSUME GdbTypeOK, Known, gdb.client \in {"detached", "stopped"}
    PROVE  \/ ThreadForOperation = <<"outOfRange">>
           \/ ThreadForOperation = <<"processGone">>
           \/ ThreadForOperation \in Existing
<1> DEFINE id == gdb.thread_for_operation
           p == IF id[1] = AnyId THEN gdb.cur[1] ELSE id[1]
           all == gdb.threads[p]
<1>1. CASE id = <<>>
  BY <1>1 DEF ThreadForOperation
<1>2. CASE id # <<>>
  <2>1. id \in Ids /\ id \in Selectable /\ gdb.known \subseteq Existing /\ gdb.cur \in Pids \X Tids
    BY <1>2 DEF GdbTypeOK, State, Known
  <2>2. p \in Pids
    BY <2>1 DEF Ids
  <2>3. id[2] # AnyId => <<p, id[2]>> \in Existing
    <3>1. id \in gdb.known \/ id[2] = AnyId
      BY <2>1 DEF Selectable
    <3>2. ASSUME id \in gdb.known PROVE <<p, id[2]>> \in Existing
      <4>1. id \in Existing /\ id \in Pids \X Tids
        BY <2>1, <3>2, ExistingIs
      <4>2. id[1] # AnyId /\ id = <<id[1], id[2]>>
        BY <4>1, PacketsAssumption
      <4> QED BY <4>1, <4>2
    <3> QED BY <3>1, <3>2
  <2>4. all # <<>> => <<p, all[Len(all)]>> \in Existing
    <3>1. PICK q \in Seq(Tids) : q = all
      BY <2>2 DEF GdbTypeOK, State
    <3>2. q # <<>> => Len(q) \in 1..Len(q)
      BY LenProperties, EmptySeq
    <3> QED BY <2>2, <3>1, <3>2, ExistingIs
  <2> HIDE DEF id, p, all
  <2>5. ThreadForOperation = IF all = <<>> THEN <<"processGone">>
                             ELSE IF id[2] = AnyId THEN <<p, all[Len(all)]>>
                             ELSE IF <<p, id[2]>> \notin Existing THEN <<"threadGone">> ELSE <<p, id[2]>>
    BY <1>2 DEF ThreadForOperation, id, p, all
  <2> QED BY <2>3, <2>4, <2>5
<1> QED BY <1>1, <1>2

-----------------------------------------------------------------------------
(* A packet is received.                                                    *)

Checked == {"X", "m", "P", "p"}
\* what a packet leaves alone unless it resumes the program or selects a thread
Left(s) == /\ s.threads = gdb.threads /\ s.cur = gdb.cur /\ s.client = gdb.client /\ s.posted = gdb.posted
           /\ s.attached = gdb.attached /\ s.thread_for_operation = gdb.thread_for_operation
           /\ s.selected = gdb.selected /\ s.failed # "threadGone"
           /\ gdb.known \subseteq s.known /\ s.known \subseteq gdb.known \cup Existing
           /\ s.client = "detached" => s.known = {}

LEMMA ReceiveFields ==
    ASSUME NEW packet, NEW did, did.state \in State, Receive(packet, did)
    PROVE  /\ gdb'.threads = did.state.threads /\ gdb'.regs = did.state.regs /\ gdb'.memory = did.state.memory
           /\ gdb'.attached = did.state.attached /\ gdb'.thread_for_operation = did.state.thread_for_operation
           /\ gdb'.core_running = did.state.core_running /\ gdb'.cur = did.state.cur
           /\ gdb'.posted = did.state.posted /\ gdb'.client = did.state.client /\ gdb'.known = did.state.known
           /\ gdb'.created = did.state.created /\ gdb'.edits = did.state.edits /\ gdb'.failed = did.state.failed
           /\ gdb'.last = IF packet[1] \in Checked THEN [packet |-> packet, reply |-> did.reply] ELSE Nothing
           /\ gdb'.selected = IF packet[1] = "H" /\ did.reply = <<"OK">> THEN packet[2] ELSE did.state.selected
BY DEF Receive, State, Checked

LEMMA ReceiveType ==
    ASSUME NEW packet, NEW did, did.state \in State, Receive(packet, did),
           packet[1] \in Checked => packet \in Packet /\ did.reply \in Reply,
           packet[1] = "H" => packet[2] \in Ids
    PROVE  GdbTypeOK'
<1> DEFINE last == IF packet[1] \in Checked THEN [packet |-> packet, reply |-> did.reply] ELSE Nothing
           selected == IF packet[1] = "H" /\ did.reply = <<"OK">> THEN packet[2] ELSE did.state.selected
<1>1. last \in [packet : Packet, reply : Reply]
  <2>1. Nothing \in [packet : Packet, reply : Reply]
    BY DEF Nothing, Packet, Reply
  <2> QED BY <2>1
<1>2. selected \in {<<>>} \cup Ids
  BY DEF State
<1>3. gdb' = [did.state EXCEPT !.last = last, !.selected = selected]
  BY DEF Receive, Checked
<1> HIDE DEF last, selected
<1>4. gdb' \in State
  BY <1>1, <1>2, <1>3 DEF State
<1> QED BY <1>4 DEF GdbTypeOK

(* A packet that leaves the program where it is keeps the invariant, if its reply is right. *)
LEMMA LeftStep ==
    ASSUME Inv, NEW packet, NEW did, did.state \in State, Left(did.state), Receive(packet, did),
           packet[1] # "H", packet[1] \in Checked => packet \in Packet /\ did.reply \in Reply /\ RepliesRight'
    PROVE  Inv'
<1>1. GdbTypeOK'
  BY ReceiveType
<1>2. Existing' = Existing
  <2>1. gdb'.threads = gdb.threads
    BY ReceiveFields DEF Left
  <2> QED BY <2>1 DEF Existing, Thread
<1>3. /\ gdb'.cur = gdb.cur /\ gdb'.client = gdb.client /\ gdb'.posted = gdb.posted /\ gdb'.attached = gdb.attached
      /\ gdb'.thread_for_operation = gdb.thread_for_operation /\ gdb'.selected = gdb.selected
      /\ gdb'.failed # "threadGone" /\ gdb.known \subseteq gdb'.known /\ gdb'.known \subseteq gdb.known \cup Existing
      /\ gdb.client = "detached" => gdb'.known = {}
  <2>1. /\ gdb'.cur = did.state.cur /\ gdb'.client = did.state.client /\ gdb'.posted = did.state.posted
        /\ gdb'.attached = did.state.attached /\ gdb'.thread_for_operation = did.state.thread_for_operation
        /\ gdb'.known = did.state.known /\ gdb'.failed = did.state.failed
    BY ReceiveFields
  <2>2. gdb'.selected = did.state.selected
    BY ReceiveFields
  <2> QED BY <2>1, <2>2 DEF Left
<1>4. Selectable \subseteq Selectable'
  BY <1>3 DEF Selectable
<1>5. Known'
  <2>1. (gdb.cur \in Existing)'
    BY <1>2, <1>3 DEF Inv, Known
  <2>2. (gdb.client = "waiting" => gdb.posted \in Existing)'
    BY <1>2, <1>3 DEF Inv, Known
  <2>3. (gdb.client = "detached" => gdb.attached = <<>> /\ gdb.thread_for_operation = <<>> /\ gdb.known = {})'
    BY <1>3 DEF Inv, Known
  <2>4. ASSUME gdb'.client = "stopped"
        PROVE  /\ gdb'.known \subseteq Existing'
               /\ gdb'.thread_for_operation # <<>> => gdb'.thread_for_operation = gdb'.selected /\ gdb'.selected \in Selectable'
    BY <1>2, <1>3, <1>4, <2>4 DEF Inv, Known
  <2> QED BY <1>3, <2>1, <2>2, <2>3, <2>4 DEF Known
<1>6. RepliesRight'
  <2>1. CASE packet[1] \in Checked
    BY <2>1
  <2>2. CASE packet[1] \notin Checked
    <3>1. gdb'.last = Nothing
      BY <2>2, ReceiveFields
    <3>2. gdb'.last.packet = <<>>
      BY <3>1 DEF Nothing
    <3> QED BY <3>2 DEF RepliesRight
  <2> QED BY <2>1, <2>2
<1> QED BY <1>1, <1>5, <1>6 DEF Inv

(* A packet that ends the network thread. *)
Reasons == {"outOfRange", "processGone", "throw", "invalidAddress", "notImplemented"}

LEMMA FailStep ==
    ASSUME Inv, NEW packet, NEW why \in Reasons, Receive(packet, Fails(why)), packet[1] # "H",
           packet[1] \in Checked => packet \in Packet
    PROVE  Inv'
<1>0. why \in Failures /\ why # "threadGone" /\ why # "none"
  <2>1. \/ why = "outOfRange" \/ why = "processGone" \/ why = "throw"
        \/ why = "invalidAddress" \/ why = "notImplemented"
    BY DEF Reasons
  <2>2. why # "threadGone"
    BY <2>1
  <2>3. why # "none"
    BY <2>1
  <2>4. why \in Failures
    BY <2>1 DEF Failures
  <2> QED BY <2>2, <2>3, <2>4
<1>1. Fails(why).state = [gdb EXCEPT !.failed = why] /\ Fails(why).reply = NoReply
  BY DEF Fails, Did
<1>2. Fails(why).state \in State
  BY <1>0, <1>1 DEF Inv, GdbTypeOK, State
<1>3. Left(Fails(why).state)
  BY <1>0, <1>1 DEF Inv, GdbTypeOK, State, Known, Left
<1>4. gdb'.failed = why
  <2>1. gdb'.failed = Fails(why).state.failed
    BY <1>2, ReceiveFields
  <2>2. [gdb EXCEPT !.failed = why].failed = why
    BY DEF Inv, GdbTypeOK, State
  <2> QED BY <1>1, <2>1, <2>2
<1>5. RepliesRight'
  BY <1>0, <1>4 DEF RepliesRight, Settled, Ready
<1>6. Fails(why).reply \in Reply
  BY <1>1 DEF Reply
<1> QED BY <1>2, <1>3, <1>5, <1>6, LeftStep

(* A packet that is only answered. *)
LEMMA AnswerStep ==
    ASSUME Inv, NEW packet, NEW reply, Receive(packet, Did(gdb, reply)), packet[1] # "H",
           packet[1] \in Checked => packet \in Packet /\ reply \in Reply /\ RepliesRight'
    PROVE  Inv'
<1>1. Did(gdb, reply).state = gdb /\ Did(gdb, reply).reply = reply
  BY DEF Did
<1>2. Did(gdb, reply).state \in State
  BY <1>1 DEF Inv, GdbTypeOK
<1>3. Left(Did(gdb, reply).state)
  BY <1>1 DEF Inv, Known, Left
<1> QED BY <1>1, <1>2, <1>3, LeftStep

(* The thread that the stub looks up is the same after a packet that leaves the program. *)
LEMMA TargetStays ==
    ASSUME gdb'.threads = gdb.threads, gdb'.cur = gdb.cur, gdb'.thread_for_operation = gdb.thread_for_operation
    PROVE  ThreadForOperation' = ThreadForOperation
<1>1. Existing' = Existing
  BY DEF Existing, Thread
<1> QED BY <1>1 DEF ThreadForOperation

(* A thread that exists is neither of the two reasons to fail. *)
LEMMA TargetLength ==
    ASSUME GdbTypeOK, ThreadForOperation \in Existing
    PROVE  /\ Len(ThreadForOperation) = 2 /\ ThreadForOperation \in Pids \X Tids
           /\ ThreadForOperation # <<"threadGone">>
<1>1. PICK p \in Pids, t \in Tids : ThreadForOperation = <<p, t>>
  BY ExistingIs
<1> QED BY <1>1

(* A packet that finds no thread to inspect. *)
LEMMA UntargetedStep ==
    ASSUME Inv, NEW packet, NEW did, Receive(packet, did), packet[1] # "H",
           packet[1] \in Checked => packet \in Packet, ThreadForOperation \notin Existing,
           ThreadForOperation = <<"outOfRange">> => did = Fails("outOfRange"),
           ThreadForOperation = <<"processGone">> => did = Fails("processGone")
    PROVE  Inv'
<1>0. GdbTypeOK /\ Known /\ gdb.client \in {"detached", "stopped"}
  BY DEF Inv, Receive
<1>1. "outOfRange" \in Reasons /\ "processGone" \in Reasons
  BY DEF Reasons
<1>2. CASE ThreadForOperation = <<"outOfRange">>
  BY <1>1, <1>2, FailStep
<1>3. CASE ThreadForOperation = <<"processGone">>
  BY <1>1, <1>3, FailStep
<1> QED BY <1>0, <1>2, <1>3, TargetKnown

-----------------------------------------------------------------------------
(* Registers.                                                               *)

LEMMA ReadRegisterStep ==
    ASSUME Inv, NEW r \in Regs, Receive(<<"p", r>>, ReadRegister(r))
    PROVE  Inv'
<1> DEFINE t == ThreadForOperation
           packet == <<"p", r>>
           answer == IF r < 16 \/ r = 25 THEN Data(<<gdb.regs[t][r]>>) ELSE <<"x">>
<1>0. packet[1] # "H" /\ packet \in Packet /\ GdbTypeOK /\ Known /\ gdb.client \in {"detached", "stopped"} /\ r \in Nat
  BY PacketsAssumption DEF Packet, Inv, Receive
<1>1. CASE t \notin Existing
  <2>1. t = <<"outOfRange">> => ReadRegister(r) = Fails("outOfRange")
    BY DEF ReadRegister, WithThread, Dereferenced
  <2>2. t = <<"processGone">> => ReadRegister(r) = Fails("processGone")
    BY DEF ReadRegister, WithThread, Dereferenced
  <2> QED BY <1>0, <1>1, <2>1, <2>2, UntargetedStep
<1>2. CASE t \in Existing
  <2>0. Len(t) # 1 /\ t \in Pids \X Tids /\ t # <<"threadGone">>
    BY <1>0, <1>2, TargetLength
  <2>1. ReadRegister(r) = IF r >= 26 THEN Fails("throw") ELSE Did(gdb, answer)
    BY <2>0 DEF ReadRegister, WithThread, Dereferenced
  <2>2. CASE r >= 26
    <3>1. ReadRegister(r) = Fails("throw")
      BY <2>1, <2>2
    <3>2. "throw" \in Reasons
      BY DEF Reasons
    <3> QED BY <1>0, <3>1, <3>2, FailStep
  <2>3. CASE ~(r >= 26)
    <3>1. ReadRegister(r) = Did(gdb, answer)
      BY <2>1, <2>3
    <3>2. answer \in Reply
      <4>1. gdb.regs[t][r] \in Int
        BY <1>0, <2>0 DEF GdbTypeOK, State
      <4>2. <<gdb.regs[t][r]>> \in Seq(Int)
        BY <4>1
      <4> QED BY <4>2 DEF Reply, Data
    <3>3. RepliesRight'
      <4>1. Did(gdb, answer).state = gdb /\ Did(gdb, answer).reply = answer
        BY DEF Did
      <4>2. gdb \in State
        BY <1>0 DEF GdbTypeOK
      <4> HIDE DEF answer
      <4>3. /\ gdb'.last = [packet |-> packet, reply |-> answer] /\ gdb'.regs = gdb.regs
            /\ gdb'.threads = gdb.threads /\ gdb'.cur = gdb.cur /\ gdb'.thread_for_operation = gdb.thread_for_operation
        BY <3>1, <4>1, <4>2, ReceiveFields DEF Checked
      <4>4. t' = t
        BY <4>3, TargetStays
      <4>5. r < 16 => answer = Data(<<gdb'.regs[t'][r]>>)
        BY <4>3, <4>4 DEF answer
      <4>6. gdb'.last.packet = <<"p", r>> /\ gdb'.last.reply = answer
        BY <4>3
      <4> HIDE DEF t
      <4> QED BY <4>5, <4>6 DEF RepliesRight, t
    <3> QED BY <1>0, <3>1, <3>2, <3>3, AnswerStep
  <2> QED BY <2>2, <2>3
<1> QED BY <1>1, <1>2

LEMMA WriteRegisterStep ==
    ASSUME Inv, NEW r \in Regs, NEW value \in Int, Receive(<<"P", r, value>>, WriteRegister(r, value))
    PROVE  Inv'
<1> DEFINE t == ThreadForOperation
           packet == <<"P", r, value>>
           written == [gdb EXCEPT !.regs[t][r] = value, !.edits = @ + 1]
<1>0. packet[1] # "H" /\ packet \in Packet /\ GdbTypeOK /\ Known /\ r \in Nat
  BY PacketsAssumption DEF Packet, Inv
<1>1. CASE t \notin Existing
  <2>1. t = <<"outOfRange">> => WriteRegister(r, value) = Fails("outOfRange")
    BY DEF WriteRegister, WithThread, Dereferenced
  <2>2. t = <<"processGone">> => WriteRegister(r, value) = Fails("processGone")
    BY DEF WriteRegister, WithThread, Dereferenced
  <2> QED BY <1>0, <1>1, <2>1, <2>2, UntargetedStep
<1>2. CASE t \in Existing
  <2>0. Len(t) # 1 /\ t \in Pids \X Tids /\ t # <<"threadGone">>
    BY <1>0, <1>2, TargetLength
  <2>1. WriteRegister(r, value) = IF r >= 26 THEN Fails("throw") ELSE Did(IF r < 16 THEN written ELSE gdb, <<"OK">>)
    BY <2>0 DEF WriteRegister, WithThread, Dereferenced
  <2>2. CASE r >= 26
    <3>1. WriteRegister(r, value) = Fails("throw")
      BY <2>1, <2>2
    <3>2. "throw" \in Reasons
      BY DEF Reasons
    <3> QED BY <1>0, <3>1, <3>2, FailStep
  <2>3. CASE ~(r >= 26) /\ ~(r < 16)
    <3>1. WriteRegister(r, value) = Did(gdb, <<"OK">>)
      BY <2>1, <2>3
    <3>2. <<"OK">> \in Reply
      BY DEF Reply
    <3>3. RepliesRight'
      <4>1. Did(gdb, <<"OK">>).state = gdb /\ Did(gdb, <<"OK">>).reply = <<"OK">> /\ gdb \in State
        BY <1>0 DEF Did, GdbTypeOK
      <4>2. gdb'.last = [packet |-> packet, reply |-> <<"OK">>]
        BY <3>1, <4>1, ReceiveFields DEF Checked
      <4>3. gdb'.last.packet = <<"P", r, value>>
        BY <4>2
      <4> HIDE DEF t
      <4> QED BY <2>3, <4>3 DEF RepliesRight
    <3> QED BY <1>0, <3>1, <3>2, <3>3, AnswerStep
  <2>4. CASE r < 16
    <3>1. WriteRegister(r, value) = Did(written, <<"OK">>)
      BY <1>0, <2>1, <2>4
    <3>2. <<"OK">> \in Reply
      BY DEF Reply
    <3>3. written \in State /\ written.regs[t][r] = value
      <4> HIDE DEF t
      <4>1. gdb.regs \in [Pids \X Tids -> [Regs -> Int]] /\ gdb \in State
        BY <1>0 DEF GdbTypeOK, State
      <4>2. [gdb.regs EXCEPT ![t][r] = value] \in [Pids \X Tids -> [Regs -> Int]]
            /\ [gdb.regs EXCEPT ![t][r] = value][t][r] = value
        BY <2>0, <4>1
      <4>3. gdb.edits + 1 \in Nat
        BY <4>1 DEF State
      <4>4. written = [gdb EXCEPT !.regs = [gdb.regs EXCEPT ![t][r] = value], !.edits = gdb.edits + 1]
        BY <4>1 DEF State
      <4> QED BY <4>1, <4>2, <4>3, <4>4 DEF State
    <3>4. /\ written.threads = gdb.threads /\ written.cur = gdb.cur /\ written.client = gdb.client
          /\ written.posted = gdb.posted /\ written.attached = gdb.attached
          /\ written.thread_for_operation = gdb.thread_for_operation /\ written.selected = gdb.selected
          /\ written.failed = gdb.failed /\ written.known = gdb.known
      BY <1>0 DEF GdbTypeOK, State
    <3> HIDE DEF written
    <3>5. Left(written)
      BY <1>0, <3>4 DEF Left, Known
    <3>6. Did(written, <<"OK">>).state = written /\ Did(written, <<"OK">>).reply = <<"OK">>
      BY DEF Did
    <3>7. RepliesRight'
      <4>1. /\ gdb'.last = [packet |-> packet, reply |-> <<"OK">>] /\ gdb'.regs = written.regs
            /\ gdb'.threads = gdb.threads /\ gdb'.cur = gdb.cur /\ gdb'.thread_for_operation = gdb.thread_for_operation
        BY <3>1, <3>3, <3>4, <3>6, ReceiveFields DEF Checked
      <4>2. t' = t
        BY <4>1, TargetStays
      <4>3. gdb'.last.packet = <<"P", r, value>> /\ gdb'.regs[t'][r] = value
        BY <3>3, <4>1, <4>2
      <4> HIDE DEF t
      <4> QED BY <4>3 DEF RepliesRight, t
    <3> QED BY <1>0, <3>1, <3>2, <3>3, <3>5, <3>6, <3>7, LeftStep
  <2> QED BY <1>0, <2>2, <2>3, <2>4
<1> QED BY <1>1, <1>2

-----------------------------------------------------------------------------
(* Memory.                                                                  *)

(* Up to length elements of memory can be read, as many as are mapped in a row. *)
LEMMA LongestRange ==
    ASSUME NEW addr \in Int, NEW length \in Nat
    PROVE  LET readable == {n \in 0..length : \A a \in addr .. addr + n - 1 : a \in Present}
               n == CHOOSE n \in readable : \A m \in readable : m <= n
           IN  /\ n \in 0..length /\ \A i \in 1..n : addr + i - 1 \in Present
               /\ n < length => addr + n \notin Present
<1> DEFINE readable == {n \in 0..length : \A a \in addr .. addr + n - 1 : a \in Present}
           G == {l \in 0..length : \E n \in readable : \A m \in readable : m <= l => m <= n}
<1>1. 0 \in readable
  OBVIOUS
<1>2. 0 \in G
  <2>1. \A m \in readable : m <= 0 => m <= 0
    OBVIOUS
  <2> HIDE DEF readable
  <2> QED BY <1>1, <2>1
<1>3. ASSUME NEW l \in 1..length, l - 1 \in G PROVE l \in G
  <2>0. \A m \in readable : m \in 0..length
    OBVIOUS
  <2> HIDE DEF readable
  <2>1. CASE l \in readable
    BY <2>1
  <2>2. CASE l \notin readable
    <3>1. PICK n \in readable : \A m \in readable : m <= l - 1 => m <= n
      BY <1>3
    <3>2. ASSUME NEW m \in readable, m <= l PROVE m <= n
      <4>1. m # l /\ m \in 0..length
        BY <2>0, <2>2
      <4>2. m <= l - 1
        BY <3>2, <4>1
      <4> QED BY <3>1, <4>2
    <3> QED BY <3>1, <3>2
  <2> QED BY <2>1, <2>2
<1>4. length \in G
  <2> HIDE DEF G
  <2>1. \A l \in 0..length : l \in G
    BY <1>2, <1>3, UpTo
  <2> QED BY <2>1
<1>5. \E n \in readable : \A m \in readable : m <= n
  <2>0. \A m \in readable : m <= length
    OBVIOUS
  <2> HIDE DEF readable
  <2> QED BY <1>4, <2>0
<1> DEFINE n == CHOOSE n \in readable : \A m \in readable : m <= n
<1>6. n \in readable /\ \A m \in readable : m <= n
  <2> HIDE DEF readable
  <2> QED BY <1>5
<1> HIDE DEF n
<1>7. n \in 0..length /\ \A a \in addr .. addr + n - 1 : a \in Present
  BY <1>6
<1>8. \A i \in 1..n : addr + i - 1 \in Present
  <2>1. ASSUME NEW i \in 1..n PROVE addr + i - 1 \in addr .. addr + n - 1
    BY <1>7
  <2> QED BY <1>7, <2>1
<1>9. ASSUME n < length, addr + n \in Present PROVE FALSE
  <2>1. n + 1 \in 0..length
    BY <1>7, <1>9
  <2>2. ASSUME NEW a \in addr .. addr + (n + 1) - 1 PROVE a \in Present
    <3>1. a \in addr .. addr + n - 1 \/ a = addr + n
      BY <1>7
    <3> QED BY <1>7, <1>9, <3>1
  <2>3. n + 1 \in readable
    BY <2>1, <2>2
  <2>4. n + 1 <= n
    BY <1>6, <2>3
  <2> QED BY <1>7, <2>4
<1> QED BY <1>7, <1>8, <1>9 DEF n

LEMMA ReadMemoryStep ==
    ASSUME Inv, NEW addr \in Addrs, NEW length \in Nat, Receive(<<"m", addr, length>>, ReadMemory(addr, length))
    PROVE  Inv'
<1> DEFINE t == ThreadForOperation
           packet == <<"m", addr, length>>
           readable == {n \in 0..length : \A a \in addr .. addr + n - 1 : a \in Present}
           n == CHOOSE n \in readable : \A m \in readable : m <= n
           read == [i \in 1 .. n |-> gdb.memory[t[1]][addr + i - 1]]
           answer == IF n = 0 THEN Error ELSE Data(read)
<1>0. packet[1] # "H" /\ packet \in Packet /\ GdbTypeOK /\ Known /\ addr \in Int
  BY PacketsAssumption DEF Packet, Inv
<1>1. CASE t \notin Existing
  <2>1. t = <<"outOfRange">> => ReadMemory(addr, length) = Fails("outOfRange")
    BY DEF ReadMemory, WithThread, Dereferenced
  <2>2. t = <<"processGone">> => ReadMemory(addr, length) = Fails("processGone")
    BY DEF ReadMemory, WithThread, Dereferenced
  <2> QED BY <1>0, <1>1, <2>1, <2>2, UntargetedStep
<1>2. CASE t \in Existing
  <2>0. Len(t) # 1 /\ t \in Pids \X Tids /\ t # <<"threadGone">>
    BY <1>0, <1>2, TargetLength
  <2>1. ReadMemory(addr, length) = Did(gdb, answer)
    BY <2>0 DEF ReadMemory, WithThread, Dereferenced
  <2>2. /\ n \in 0..length /\ \A i \in 1..n : addr + i - 1 \in Present
        /\ n < length => addr + n \notin Present
    BY <1>0, LongestRange
  <2> HIDE DEF n, readable
  <2>3. read \in Seq(Int) /\ Len(read) = n
    <3>1. \A i \in 1..n : gdb.memory[t[1]][addr + i - 1] \in Int
      <4>1. t[1] \in Pids
        BY <2>0
      <4> HIDE DEF t
      <4>2. gdb.memory[t[1]] \in [Present -> Int]
        BY <1>0, <4>1 DEF GdbTypeOK, State
      <4> QED BY <2>2, <4>2
    <3>2. read \in [1..n -> Int] /\ n \in Nat
      BY <2>2, <3>1
    <3>3. read \in Seq(Int)
      BY <3>2, SeqDef
    <3>4. DOMAIN read = 1..n
      OBVIOUS
    <3> HIDE DEF read
    <3> QED BY <3>2, <3>3, <3>4, LenProperties
  <2>4. answer \in Reply
    BY <2>3 DEF Reply, Data, Error
  <2>5. RepliesRight'
    <3>1. Did(gdb, answer).state = gdb /\ Did(gdb, answer).reply = answer
      BY DEF Did
    <3>2. gdb \in State
      BY <1>0 DEF GdbTypeOK
    <3> HIDE DEF answer
    <3>3. /\ gdb'.last = [packet |-> packet, reply |-> answer] /\ gdb'.memory = gdb.memory
          /\ gdb'.threads = gdb.threads /\ gdb'.cur = gdb.cur /\ gdb'.thread_for_operation = gdb.thread_for_operation
      BY <2>1, <3>1, <3>2, ReceiveFields DEF Checked
    <3>4. t' = t
      BY <3>3, TargetStays
    <3>5. gdb'.last.packet = <<"m", addr, length>> /\ gdb'.last.reply = answer
      BY <3>3
    <3>6. ASSUME answer # Error
          PROVE  /\ \A i \in DOMAIN answer[2] : gdb'.memory[t'[1]][addr + i - 1] = answer[2][i]
                 /\ Len(answer[2]) < length => addr + Len(answer[2]) \notin Present
      <4>1. answer = <<"data", read>>
        BY <3>6 DEF answer, Data
      <4>2. answer[2] = read
        BY <4>1
      <4>3. \A i \in DOMAIN read : gdb'.memory[t'[1]][addr + i - 1] = read[i]
        BY <3>3, <3>4
      <4> HIDE DEF read
      <4> QED BY <2>2, <2>3, <4>2, <4>3
    <3> HIDE DEF t
    <3> QED BY <3>5, <3>6 DEF RepliesRight, t
  <2> HIDE DEF answer
  <2> QED BY <1>0, <2>1, <2>4, <2>5, AnswerStep
<1> QED BY <1>1, <1>2

LEMMA WriteMemoryStep ==
    ASSUME Inv, NEW addr \in Addrs, NEW data \in Seq(Bytes), Receive(<<"X", addr, data>>, WriteMemory(addr, data))
    PROVE  Inv'
<1> DEFINE t == ThreadForOperation
           packet == <<"X", addr, data>>
           bytes == Decoded(Encoded(data), Len(data))
           memory == [a \in Present |-> IF a - addr + 1 \in DOMAIN data THEN bytes[a - addr + 1]
                                                                        ELSE gdb.memory[t[1]][a]]
           written == [gdb EXCEPT !.memory[t[1]] = memory, !.edits = @ + 1]
<1>0. packet[1] # "H" /\ packet \in Packet /\ GdbTypeOK /\ Known /\ addr \in Int
  BY PacketsAssumption DEF Packet, Inv
<1>1. CASE t \notin Existing
  <2>1. t = <<"outOfRange">> => WriteMemory(addr, data) = Fails("outOfRange")
    BY DEF WriteMemory, Dereferenced
  <2>2. t = <<"processGone">> => WriteMemory(addr, data) = Fails("processGone")
    BY DEF WriteMemory, Dereferenced
  <2> QED BY <1>0, <1>1, <2>1, <2>2, UntargetedStep
<1>2. CASE t \in Existing
  <2>0. Len(t) # 1 /\ t \in Pids \X Tids /\ t # <<"threadGone">>
    BY <1>0, <1>2, TargetLength
  <2>1. WriteMemory(addr, data) = IF \E i \in DOMAIN data : addr + i - 1 \notin Present THEN Fails("invalidAddress")
                                  ELSE Did(written, <<"OK">>)
    BY <2>0 DEF WriteMemory, Dereferenced
  <2>2. CASE \E i \in DOMAIN data : addr + i - 1 \notin Present
    <3>1. WriteMemory(addr, data) = Fails("invalidAddress")
      BY <2>1, <2>2
    <3>2. "invalidAddress" \in Reasons
      BY DEF Reasons
    <3> QED BY <1>0, <3>1, <3>2, FailStep
  <2>3. CASE \A i \in DOMAIN data : addr + i - 1 \in Present
    <3>1. WriteMemory(addr, data) = Did(written, <<"OK">>)
      BY <2>1, <2>3
    <3>2. \A i \in DOMAIN data : i \in Int /\ bytes[i] = data[i] /\ data[i] \in Int
      <4>1. data \in Seq(0..255) /\ DOMAIN data = 1..Len(data) /\ \A i \in 1..Len(data) : data[i] \in 0..255
        <5>1. /\ Len(data) \in Nat /\ DOMAIN data = 1..Len(data) /\ data \in [1..Len(data) -> Bytes]
              /\ \A i \in 1..Len(data) : data[i] \in 0..255
          BY PacketsAssumption, LenProperties, ElementOfSeq
        <5>2. data \in [1..Len(data) -> 0..255]
          BY <5>1
        <5> QED BY <5>1, <5>2, SeqDef
      <4>2. ASSUME NEW i \in DOMAIN data PROVE bytes[i] = data[i]
        <5>1. i \in 1..Len(data)
          BY <4>1
        <5> QED BY <4>1, <5>1, DecodedEncoded
      <4> HIDE DEF bytes
      <4>3. ASSUME NEW i \in DOMAIN data PROVE i \in Int /\ data[i] \in Int
        <5>0. i \in 1..Len(data)
          BY <4>1
        <5>1. data[i] \in 0..255
          BY <4>1, <5>0
        <5>2. \A b \in 0..255 : b \in Int
          OBVIOUS
        <5>3. Len(data) \in Nat
          BY LenProperties
        <5>4. i \in Int
          BY <5>0, <5>3
        <5>5. data[i] \in Int
          BY <5>1, <5>2
        <5> QED BY <5>4, <5>5
      <4> QED BY <4>2, <4>3
    <3> HIDE DEF bytes
    <3>3. memory \in [Present -> Int] /\ \A i \in DOMAIN data : memory[addr + i - 1] = data[i]
      <4>1. \A a \in Present : a \in Int /\ gdb.memory[t[1]][a] \in Int
        BY <1>0, <2>0, PacketsAssumption DEF GdbTypeOK, State
      <4>2. memory \in [Present -> Int]
        BY <3>2, <4>1
      <4>3. ASSUME NEW i \in DOMAIN data PROVE memory[addr + i - 1] = data[i]
        <5>1. i \in Int /\ (addr + i - 1) - addr + 1 = i
          BY <1>0, <3>2
        <5>2. addr + i - 1 \in Present
          BY <2>3
        <5>3. PICK a \in Present : a = addr + i - 1
          BY <5>2
        <5>4. a - addr + 1 = i
          BY <5>1, <5>3
        <5>5. memory[a] = bytes[i]
          BY <5>4
        <5> HIDE DEF memory
        <5> QED BY <3>2, <5>3, <5>5
      <4> QED BY <4>2, <4>3
    <3> HIDE DEF memory
    <3>4. written \in State /\ written.memory[t[1]] = memory
      <4>1. gdb.memory \in [Pids -> [Present -> Int]] /\ gdb \in State /\ t[1] \in Pids
        BY <1>0, <2>0 DEF GdbTypeOK, State
      <4> HIDE DEF t
      <4>2. [gdb.memory EXCEPT ![t[1]] = memory] \in [Pids -> [Present -> Int]]
            /\ [gdb.memory EXCEPT ![t[1]] = memory][t[1]] = memory
        BY <3>3, <4>1
      <4>3. gdb.edits + 1 \in Nat
        BY <4>1 DEF State
      <4>4. written = [gdb EXCEPT !.memory = [gdb.memory EXCEPT ![t[1]] = memory], !.edits = gdb.edits + 1]
        BY <4>1 DEF State
      <4> QED BY <4>1, <4>2, <4>3, <4>4 DEF State
    <3>5. /\ written.threads = gdb.threads /\ written.cur = gdb.cur /\ written.client = gdb.client
          /\ written.posted = gdb.posted /\ written.attached = gdb.attached
          /\ written.thread_for_operation = gdb.thread_for_operation /\ written.selected = gdb.selected
          /\ written.failed = gdb.failed /\ written.known = gdb.known
      BY <1>0 DEF GdbTypeOK, State
    <3> HIDE DEF written
    <3>6. Left(written)
      BY <1>0, <3>5 DEF Left, Known
    <3>7. Did(written, <<"OK">>).state = written /\ Did(written, <<"OK">>).reply = <<"OK">> /\ <<"OK">> \in Reply
      BY DEF Did, Reply
    <3>8. RepliesRight'
      <4>1. /\ gdb'.last = [packet |-> packet, reply |-> <<"OK">>] /\ gdb'.memory = written.memory
            /\ gdb'.threads = gdb.threads /\ gdb'.cur = gdb.cur /\ gdb'.thread_for_operation = gdb.thread_for_operation
        BY <3>1, <3>4, <3>5, <3>7, ReceiveFields DEF Checked
      <4>2. t' = t
        BY <4>1, TargetStays
      <4>3. gdb'.last.packet = <<"X", addr, data>> /\ \A i \in DOMAIN data : gdb'.memory[t'[1]][addr + i - 1] = data[i]
        BY <3>3, <3>4, <4>1, <4>2
      <4> HIDE DEF t
      <4> QED BY <4>3 DEF RepliesRight, t
    <3> QED BY <1>0, <3>1, <3>4, <3>6, <3>7, <3>8, LeftStep
  <2> QED BY <2>2, <2>3
<1> QED BY <1>1, <1>2

-----------------------------------------------------------------------------
(* The other packets that leave the program where it is.                    *)

LEMMA ReadAllStep ==
    ASSUME Inv, Receive(<<"g">>, ReadAll)
    PROVE  Inv'
<1> DEFINE t == ThreadForOperation
           answer == Data([i \in DOMAIN Registers |-> gdb.regs[t][Registers[i]]])
           packet == <<"g">>
<1>0. packet[1] # "H" /\ packet[1] \notin Checked /\ GdbTypeOK
  BY DEF Checked, Inv
<1>1. CASE gdb.attached = <<>>
  <2>1. ReadAll = Did(gdb, Error)
    BY <1>1 DEF ReadAll
  <2> QED BY <1>0, <2>1, AnswerStep
<1>2. CASE gdb.attached # <<>> /\ t \notin Existing
  <2>1. t = <<"outOfRange">> => ReadAll = Fails("outOfRange")
    BY <1>2 DEF ReadAll, Dereferenced
  <2>2. t = <<"processGone">> => ReadAll = Fails("processGone")
    BY <1>2 DEF ReadAll, Dereferenced
  <2> QED BY <1>0, <1>2, <2>1, <2>2, UntargetedStep
<1>3. CASE gdb.attached # <<>> /\ t \in Existing
  <2>1. Len(t) # 1
    BY <1>0, <1>3, TargetLength
  <2>2. ReadAll = Did(gdb, answer)
    BY <1>3, <2>1 DEF ReadAll, Dereferenced
  <2> HIDE DEF answer
  <2> QED BY <1>0, <2>2, AnswerStep
<1> QED BY <1>1, <1>2, <1>3

LEMMA BreakpointStep ==
    ASSUME Inv, NEW type \in Int, Receive(<<"Z", type>>, Breakpoint(type))
    PROVE  Inv'
<1> DEFINE t == ThreadForOperation
           packet == <<"Z", type>>
<1>0. packet[1] # "H" /\ packet[1] \notin Checked /\ GdbTypeOK
  BY DEF Checked, Inv
<1>1. CASE t \notin Existing
  <2>1. t = <<"outOfRange">> => Breakpoint(type) = Fails("outOfRange")
    BY DEF Breakpoint, WithThread, Dereferenced
  <2>2. t = <<"processGone">> => Breakpoint(type) = Fails("processGone")
    BY DEF Breakpoint, WithThread, Dereferenced
  <2> QED BY <1>0, <1>1, <2>1, <2>2, UntargetedStep
<1>2. CASE t \in Existing
  <2>1. Len(t) # 1 /\ t # <<"threadGone">>
    BY <1>0, <1>2, TargetLength
  <2>2. Breakpoint(type) = IF type \in 1 .. 4 THEN Fails("notImplemented") ELSE Did(gdb, <<"">>)
    BY <2>1 DEF Breakpoint, WithThread, Dereferenced
  <2>3. CASE type \in 1 .. 4
    <3>1. Breakpoint(type) = Fails("notImplemented") /\ "notImplemented" \in Reasons
      BY <2>2, <2>3 DEF Reasons
    <3> QED BY <1>0, <3>1, FailStep
  <2>4. CASE type \notin 1 .. 4
    <3>1. Breakpoint(type) = Did(gdb, <<"">>)
      BY <2>2, <2>4
    <3> QED BY <1>0, <3>1, AnswerStep
  <2> QED BY <2>3, <2>4
<1> QED BY <1>1, <1>2

LEMMA SelectableType ==
    ASSUME GdbTypeOK
    PROVE  Selectable \subseteq Ids
BY DEF GdbTypeOK, State, Selectable, Ids

(* From here GDB and the stub mean the same thread. *)
LEMMA SelectStep ==
    ASSUME Inv, NEW id, id \in Selectable, Receive(<<"H", id>>, Select(id))
    PROVE  Inv'
<1> DEFINE packet == <<"H", id>>
           chosen == [gdb EXCEPT !.thread_for_operation = id]
           state == IF gdb.attached = <<>> THEN gdb ELSE chosen
           reply == IF gdb.attached = <<>> THEN Error ELSE <<"OK">>
<1>0. GdbTypeOK /\ Known /\ gdb \in State /\ id \in Ids /\ packet[1] = "H" /\ packet[2] = id /\ packet[1] \notin Checked
  BY SelectableType DEF Inv, GdbTypeOK, Checked
<1>1. Select(id) = Did(state, reply)
  BY DEF Select
<1>2. chosen \in State /\ state \in State
  BY <1>0 DEF State
<1>3. Did(state, reply).state = state /\ Did(state, reply).reply = reply
  BY DEF Did
<1>4. /\ state.threads = gdb.threads /\ state.cur = gdb.cur /\ state.client = gdb.client /\ state.posted = gdb.posted
      /\ state.attached = gdb.attached /\ state.known = gdb.known /\ state.failed = gdb.failed
      /\ state.selected = gdb.selected
      /\ state.thread_for_operation = IF gdb.attached = <<>> THEN gdb.thread_for_operation ELSE id
  BY <1>0 DEF State
<1> HIDE DEF state
<1>5. /\ gdb'.threads = gdb.threads /\ gdb'.cur = gdb.cur /\ gdb'.client = gdb.client /\ gdb'.posted = gdb.posted
      /\ gdb'.attached = gdb.attached /\ gdb'.known = gdb.known /\ gdb'.failed = gdb.failed
      /\ gdb'.thread_for_operation = IF gdb.attached = <<>> THEN gdb.thread_for_operation ELSE id
      /\ gdb'.selected = IF gdb.attached = <<>> THEN gdb.selected ELSE id
      /\ gdb'.last = Nothing
  <2>0. PICK did : did = Select(id)
    OBVIOUS
  <2> HIDE DEF reply, packet
  <2>4. did.state = state /\ did.reply = reply
    BY <1>1, <1>3, <2>0
  <2>5. Receive(packet, did)
    BY <2>0 DEF packet
  <2>1. /\ gdb'.threads = state.threads /\ gdb'.cur = state.cur /\ gdb'.client = state.client
        /\ gdb'.posted = state.posted /\ gdb'.attached = state.attached /\ gdb'.known = state.known
        /\ gdb'.failed = state.failed /\ gdb'.thread_for_operation = state.thread_for_operation
        /\ gdb'.last = IF packet[1] \in Checked THEN [packet |-> packet, reply |-> reply] ELSE Nothing
        /\ gdb'.selected = IF packet[1] = "H" /\ reply = <<"OK">> THEN packet[2] ELSE state.selected
    <3>1. did.state \in State
      BY <1>2, <2>4
    <3>2. /\ gdb'.threads = did.state.threads /\ gdb'.cur = did.state.cur /\ gdb'.client = did.state.client
          /\ gdb'.posted = did.state.posted /\ gdb'.attached = did.state.attached /\ gdb'.known = did.state.known
          /\ gdb'.failed = did.state.failed /\ gdb'.thread_for_operation = did.state.thread_for_operation
      BY <2>5, <3>1, ReceiveFields
    <3>3. gdb'.last = IF packet[1] \in Checked THEN [packet |-> packet, reply |-> did.reply] ELSE Nothing
      BY <2>5, <3>1, ReceiveFields
    <3>4. gdb'.selected = IF packet[1] = "H" /\ did.reply = <<"OK">> THEN packet[2] ELSE did.state.selected
      BY <2>5, <3>1, ReceiveFields
    <3> QED BY <2>4, <3>2, <3>3, <3>4
  <2>2. gdb'.last = Nothing
    BY <1>0, <2>1
  <2>3. gdb'.selected = IF reply = <<"OK">> THEN id ELSE state.selected
    BY <1>0, <2>1
  <2> USE DEF reply
  <2>6. gdb'.selected = IF gdb.attached = <<>> THEN gdb.selected ELSE id
    BY <1>4, <2>3 DEF Error
  <2> QED BY <1>4, <2>1, <2>2, <2>6
<1>6. GdbTypeOK'
  BY <1>0, <1>1, <1>2, <1>3, ReceiveType
<1>7. Existing' = Existing /\ Selectable' = Selectable
  BY <1>5 DEF Existing, Thread, Selectable
<1>8. Known'
  <2>1. (gdb.cur \in Existing)'
    BY <1>0, <1>5, <1>7 DEF Known
  <2>2. (gdb.client = "waiting" => gdb.posted \in Existing)'
    BY <1>0, <1>5, <1>7 DEF Known
  <2>3. (gdb.client = "detached" => gdb.attached = <<>> /\ gdb.thread_for_operation = <<>> /\ gdb.known = {})'
    BY <1>0, <1>5 DEF Known
  <2>4. ASSUME gdb'.client = "stopped"
        PROVE  /\ gdb'.known \subseteq Existing'
               /\ gdb'.thread_for_operation # <<>> => gdb'.thread_for_operation = gdb'.selected /\ gdb'.selected \in Selectable'
    BY <1>0, <1>5, <1>7, <2>4 DEF Known
  <2> QED BY <1>0, <1>5, <2>1, <2>2, <2>3, <2>4 DEF Known
<1>9. RepliesRight'
  <2>1. gdb'.last.packet = <<>>
    BY <1>5 DEF Nothing
  <2> QED BY <2>1 DEF RepliesRight
<1> QED BY <1>6, <1>8, <1>9 DEF Inv

(* SetToSeq lists the threads of a process. *)
LEMMA ThreadsListed ==
    ASSUME GdbTypeOK, NEW p \in Pids
    PROVE  SetToSeq(Thread(p)) \in Seq(Existing)
<1>1. PICK q \in Seq(Tids) : q = gdb.threads[p]
  BY DEF GdbTypeOK, State
<1> DEFINE f == [i \in 1..Len(q) |-> <<p, q[i]>>]
<1>2. f \in Surjection(1..Len(q), Thread(p))
  <2>1. Len(q) \in Nat /\ DOMAIN q = 1..Len(q)
    BY LenProperties
  <2>2. Thread(p) = {<<p, t>> : t \in {q[i] : i \in DOMAIN q}}
    BY <1>1 DEF Thread, ToSet
  <2>3. f \in [1..Len(q) -> Thread(p)]
    BY <2>1, <2>2
  <2>4. \A t \in Thread(p) : \E i \in 1..Len(q) : f[i] = t
    BY <2>1, <2>2
  <2> HIDE DEF f
  <2> QED BY <2>3, <2>4 DEF Surjection
<1>3. IsFiniteSet(Thread(p))
  <2>1. IsFiniteSet(1..Len(q))
    BY LenProperties, FS_Interval
  <2> HIDE DEF f
  <2> QED BY <1>2, <2>1, FS_Surjection
<1> DEFINE N == Cardinality(Thread(p))
<1>4. N \in Nat /\ \E g \in [1..N -> Thread(p)] : IsInjective(g)
  <2>1. N \in Nat /\ ExistsBijection(1..N, Thread(p))
    BY <1>3, FS_CardinalityType
  <2> HIDE DEF N
  <2> QED BY <2>1 DEF ExistsBijection, Bijection, Injection
<1>5. SetToSeq(Thread(p)) \in [1..N -> Thread(p)]
  BY <1>4 DEF SetToSeq
<1> HIDE DEF N
<1>6. Thread(p) \subseteq Existing
  BY DEF Existing
<1>7. SetToSeq(Thread(p)) \in [1..N -> Existing]
  BY <1>5, <1>6
<1> QED BY <1>4, <1>7, SeqDef

(* GDB is told only of threads that exist. *)
LEMMA ThreadListStep ==
    ASSUME Inv, Receive(<<"qfThreadInfo">>, ThreadList)
    PROVE  Inv'
<1> DEFINE packet == <<"qfThreadInfo">>
           lists == [i \in DOMAIN gdb.attached |-> SetToSeq(Thread(gdb.attached[i]))]
           list == FlattenSeq(lists)
           told == [gdb EXCEPT !.known = @ \cup ToSet(list)]
<1>0. packet[1] # "H" /\ packet[1] \notin Checked /\ GdbTypeOK /\ Known /\ gdb \in State
  BY DEF Checked, Inv, GdbTypeOK
<1>1. ThreadList = IF gdb.attached = <<>> THEN Did(gdb, <<"l">>)
                   ELSE IF \E i \in DOMAIN gdb.attached : gdb.threads[gdb.attached[i]] = <<>> THEN Fails("processGone")
                   ELSE Did(told, Data(list))
  BY DEF ThreadList
<1>2. ToSet(list) \subseteq Existing
  <2>1. PICK q \in Seq(Pids) : q = gdb.attached
    BY <1>0 DEF State
  <2>2. Len(q) \in Nat /\ DOMAIN q = 1..Len(q) /\ \A i \in 1..Len(q) : q[i] \in Pids
    BY LenProperties, ElementOfSeq
  <2>3. \A i \in 1..Len(q) : SetToSeq(Thread(q[i])) \in Seq(Existing)
    BY <1>0, <2>2, ThreadsListed
  <2>4. lists = [i \in 1..Len(q) |-> SetToSeq(Thread(q[i]))]
    BY <2>1, <2>2
  <2> HIDE DEF lists
  <2>5. lists \in [1..Len(q) -> Seq(Existing)]
    BY <2>3, <2>4
  <2>6. lists \in Seq(Seq(Existing))
    BY <2>2, <2>5, SeqDef
  <2>7. list \in Seq(Existing)
    BY <2>6, FlattenProperties
  <2> HIDE DEF list
  <2>8. PICK e \in Seq(Existing) : e = list
    BY <2>7
  <2>9. DOMAIN e = 1..Len(e) /\ \A i \in 1..Len(e) : e[i] \in Existing
    BY LenProperties, ElementOfSeq
  <2>10. ToSet(e) \subseteq Existing
    BY <2>9 DEF ToSet
  <2> QED BY <2>8, <2>10
<1> HIDE DEF list
<1>3. CASE gdb.attached = <<>>
  <2>1. ThreadList = Did(gdb, <<"l">>)
    BY <1>1, <1>3
  <2> QED BY <1>0, <2>1, AnswerStep
<1>4. CASE gdb.attached # <<>> /\ \E i \in DOMAIN gdb.attached : gdb.threads[gdb.attached[i]] = <<>>
  <2>1. ThreadList = Fails("processGone") /\ "processGone" \in Reasons
    BY <1>1, <1>4 DEF Reasons
  <2> QED BY <1>0, <2>1, FailStep
<1>5. CASE gdb.attached # <<>> /\ ~\E i \in DOMAIN gdb.attached : gdb.threads[gdb.attached[i]] = <<>>
  <2>1. ThreadList = Did(told, Data(list))
    BY <1>1, <1>5
  <2>2. told \in State
    <3>1. Existing \subseteq Pids \X Tids
      BY <1>0, ExistingIs
    <3>2. gdb.known \cup ToSet(list) \in SUBSET (Pids \X Tids)
      BY <1>0, <1>2, <3>1 DEF State
    <3> QED BY <1>0, <3>2 DEF State
  <2>3. /\ told.threads = gdb.threads /\ told.cur = gdb.cur /\ told.client = gdb.client /\ told.posted = gdb.posted
        /\ told.attached = gdb.attached /\ told.thread_for_operation = gdb.thread_for_operation
        /\ told.selected = gdb.selected /\ told.failed = gdb.failed /\ told.known = gdb.known \cup ToSet(list)
    BY <1>0 DEF State
  <2> HIDE DEF told
  <2>4. Left(told)
    BY <1>0, <1>2, <1>5, <2>3 DEF Left, Known
  <2>5. Did(told, Data(list)).state = told
    BY DEF Did
  <2> QED BY <1>0, <2>1, <2>2, <2>4, <2>5, LeftStep
<1> QED BY <1>3, <1>4, <1>5

LEMMA ThreadNameStep ==
    ASSUME Inv, NEW t, t \in gdb.known, Receive(<<"qThreadExtraInfo", t>>, ThreadName(t))
    PROVE  Inv'
<1> DEFINE packet == <<"qThreadExtraInfo", t>>
<1>0. packet[1] # "H" /\ packet[1] \notin Checked /\ GdbTypeOK /\ Known /\ gdb.client \in {"detached", "stopped"}
  BY DEF Checked, Inv, Receive
<1>1. t \in Existing
  BY <1>0 DEF Known
<1>2. CASE gdb.threads[t[1]] = <<>>
  <2>1. ThreadName(t) = Fails("processGone") /\ "processGone" \in Reasons
    BY <1>2 DEF ThreadName, Reasons
  <2> QED BY <1>0, <2>1, FailStep
<1>3. CASE gdb.threads[t[1]] # <<>>
  <2>1. ThreadName(t) = Did(gdb, Data(t))
    BY <1>1, <1>3 DEF ThreadName
  <2> QED BY <1>0, <2>1, AnswerStep
<1> QED BY <1>2, <1>3

-----------------------------------------------------------------------------
(* The packets that let the program run.                                    *)

LEMMA ResumeStep ==
    ASSUME Inv, NEW packet, NEW did, did.state \in State, Receive(packet, did), packet[1] # "H",
           packet[1] \notin Checked, did.state.threads = gdb.threads, did.state.cur \in Existing,
           did.state.failed # "threadGone",
           did.state.client = "running" \/ (did.state.client = "waiting" /\ did.state.posted \in Existing)
    PROVE  Inv'
<1>1. GdbTypeOK'
  BY ReceiveType
<1>2. /\ gdb'.threads = did.state.threads /\ gdb'.cur = did.state.cur /\ gdb'.client = did.state.client
      /\ gdb'.posted = did.state.posted /\ gdb'.failed = did.state.failed
  BY ReceiveFields
<1>3. gdb'.last = Nothing
  BY ReceiveFields
<1>4. Existing' = Existing
  BY <1>2 DEF Existing, Thread
<1>5. Known'
  BY <1>2, <1>4 DEF Known
<1>6. RepliesRight'
  <2>1. gdb'.last.packet = <<>>
    BY <1>3 DEF Nothing
  <2> QED BY <2>1 DEF RepliesRight
<1> QED BY <1>1, <1>5, <1>6 DEF Inv

LEMMA ContinueStep ==
    ASSUME Inv, Receive(<<"vCont_c">>, Continue)
    PROVE  Inv'
<1> DEFINE packet == <<"vCont_c">>
           state == [gdb EXCEPT !.core_running = TRUE, !.client = "running"]
<1>1. packet[1] # "H" /\ packet[1] \notin Checked
  BY DEF Checked
<1>2. Continue.state = state
  BY DEF Continue, Did
<1>3. state \in State
  BY DEF Inv, GdbTypeOK, State
<1>4. state.threads = gdb.threads /\ state.cur = gdb.cur /\ state.failed = gdb.failed /\ state.client = "running"
  BY DEF Inv, GdbTypeOK, State
<1> HIDE DEF state
<1>5. state.cur \in Existing /\ state.failed # "threadGone"
  BY <1>4 DEF Inv, Known
<1>6. PICK did : did = Continue
  OBVIOUS
<1>7. did.state = state /\ Receive(packet, did)
  BY <1>2, <1>6
<1>8. /\ did.state \in State /\ did.state.threads = gdb.threads /\ did.state.cur \in Existing
      /\ did.state.failed # "threadGone" /\ did.state.client = "running"
  BY <1>3, <1>4, <1>5, <1>7
<1> HIDE DEF packet
<1> QED BY <1>1, <1>7, <1>8, ResumeStep

LEMMA StepInStep ==
    ASSUME Inv, NEW id, NEW t, t \in Matches(id), Receive(<<"vCont_s", id>>, StepIn(t))
    PROVE  Inv'
<1> DEFINE packet == <<"vCont_s", id>>
           state == [gdb EXCEPT !.cur = t, !.posted = t, !.client = "waiting"]
<1>1. packet[1] # "H" /\ packet[1] \notin Checked
  BY DEF Checked
<1>2. StepIn(t).state = state
  BY DEF StepIn, Did
<1>3. t \in Existing /\ t \in Pids \X Tids
  BY ExistingIs DEF Inv, Matches
<1>4. state \in State
  BY <1>3 DEF Inv, GdbTypeOK, State
<1>5. state.threads = gdb.threads /\ state.cur = t /\ state.failed = gdb.failed /\ state.client = "waiting" /\ state.posted = t
  BY DEF Inv, GdbTypeOK, State
<1> HIDE DEF state
<1>6. state.failed # "threadGone"
  BY <1>5 DEF Inv, Known
<1> QED BY <1>1, <1>2, <1>3, <1>4, <1>5, <1>6, ResumeStep

LEMMA AttachStep ==
    ASSUME Inv, NEW p \in Pids, NEW t, p \in Emulated /\ gdb.threads[p] # <<>> => t \in Thread(p),
           Receive(<<"vAttach", p>>, Attach(p, t))
    PROVE  Inv'
<1> DEFINE packet == <<"vAttach", p>>
           first == <<p, Head(gdb.threads[p])>>
           state == [gdb EXCEPT !.attached = Append(@, p), !.cur = t, !.posted = first, !.client = "waiting"]
<1>0. packet[1] # "H" /\ packet[1] \notin Checked /\ GdbTypeOK /\ gdb \in State
  BY DEF Checked, Inv, GdbTypeOK
<1>1. CASE gdb.threads[p] = <<>> \/ p \notin Emulated
  <2>1. Attach(p, t) = Did(gdb, Error)
    BY <1>1 DEF Attach
  <2> QED BY <1>0, <2>1, AnswerStep
<1>2. CASE ~(gdb.threads[p] = <<>> \/ p \notin Emulated)
  <2>1. Attach(p, t) = Did(state, NoReply) /\ Did(state, NoReply).state = state
    BY <1>2 DEF Attach, Did
  <2>2. t \in Existing /\ t \in Pids \X Tids
    <3>1. t \in Existing
      BY <1>2 DEF Existing
    <3> QED BY <1>0, <3>1, ExistingIs
  <2>3. first \in Existing /\ first \in Pids \X Tids
    <3>1. PICK q \in Seq(Tids) : q = gdb.threads[p]
      BY <1>0 DEF State
    <3>2. Head(q) = q[1] /\ 1 \in 1..Len(q)
      BY <1>2, <3>1, HeadTailProperties
    <3>3. first \in Existing
      BY <1>0, <3>1, <3>2, ExistingIs
    <3> QED BY <1>0, <3>3, ExistingIs
  <2> HIDE DEF first
  <2>4. Append(gdb.attached, p) \in Seq(Pids)
    BY <1>0, AppendProperties DEF State
  <2>5. state \in State
    BY <1>0, <2>2, <2>3, <2>4 DEF State
  <2>6. state.threads = gdb.threads /\ state.cur = t /\ state.failed = gdb.failed /\ state.client = "waiting" /\ state.posted = first
    BY <1>0 DEF State
  <2> HIDE DEF state
  <2>7. state.failed # "threadGone"
    BY <2>6 DEF Inv, Known
  <2> QED BY <1>0, <2>1, <2>2, <2>3, <2>5, <2>6, <2>7, ResumeStep
<1> QED BY <1>1, <1>2

-----------------------------------------------------------------------------
(* The program stops.                                                       *)

(* When the stop is reported, GDB and the stub mean the thread that stopped. *)
LEMMA SignalStep ==
    ASSUME Inv, NEW t, t \in Existing, ReportSignal(t, "stopped")
    PROVE  Inv'
<1> DEFINE entry == ResetSelection(t)
<1>0. GdbTypeOK /\ gdb \in State /\ Known /\ t \in Pids \X Tids /\ t \in Ids
  <2>1. GdbTypeOK /\ gdb \in State /\ Known
    BY DEF Inv, GdbTypeOK
  <2>2. t \in Pids \X Tids
    BY <2>1, ExistingIs
  <2> QED BY <2>1, <2>2 DEF Ids
<1>1. entry \in {<<>>, t}
  BY DEF ResetSelection
<1>2. gdb' = [gdb EXCEPT !.thread_for_operation = entry, !.posted = <<>>, !.core_running = FALSE,
                         !.client = "stopped", !.selected = t, !.known = {t}, !.last = Nothing]
  BY DEF ReportSignal
<1> HIDE DEF entry
<1>3. GdbTypeOK'
  <2>1. Nothing \in [packet : Packet, reply : Reply]
    BY DEF Nothing, Packet, Reply
  <2>2. gdb' \in State
    BY <1>0, <1>1, <1>2, <2>1 DEF State
  <2> QED BY <2>2 DEF GdbTypeOK
<1>4. /\ gdb'.threads = gdb.threads /\ gdb'.cur = gdb.cur /\ gdb'.failed = gdb.failed /\ gdb'.client = "stopped"
      /\ gdb'.selected = t /\ gdb'.known = {t} /\ gdb'.thread_for_operation = entry /\ gdb'.last = Nothing
  BY <1>0, <1>2 DEF State
<1>5. Existing' = Existing
  BY <1>4 DEF Existing, Thread
<1>6. t \in Selectable'
  BY <1>4 DEF Selectable
<1>7. Known'
  BY <1>0, <1>1, <1>4, <1>5, <1>6 DEF Known
<1>8. RepliesRight'
  <2>1. gdb'.last.packet = <<>>
    BY <1>4 DEF Nothing
  <2> QED BY <2>1 DEF RepliesRight
<1> QED BY <1>3, <1>7, <1>8 DEF Inv

LEMMA InterruptStep ==
    ASSUME Inv, Interrupt
    PROVE  Inv'
<1>0. GdbTypeOK /\ gdb \in State /\ Known
  BY DEF Inv, GdbTypeOK
<1>1. CASE gdb.core_running
  <2>1. ReportSignal(gdb.cur, "stopped") /\ gdb.cur \in Existing
    BY <1>0, <1>1 DEF Interrupt, Known
  <2>2. PICK t : t = gdb.cur
    OBVIOUS
  <2> QED BY <2>1, <2>2, SignalStep
<1>2. CASE ~gdb.core_running
  <2>1. gdb' = [gdb EXCEPT !.failed = "notRunning"]
    BY <1>2 DEF Interrupt
  <2>2. GdbTypeOK'
    BY <1>0, <2>1 DEF GdbTypeOK, State, Failures
  <2>3. /\ gdb'.threads = gdb.threads /\ gdb'.cur = gdb.cur /\ gdb'.failed = "notRunning" /\ gdb'.client = gdb.client
        /\ gdb'.selected = gdb.selected /\ gdb'.known = gdb.known /\ gdb'.posted = gdb.posted
        /\ gdb'.thread_for_operation = gdb.thread_for_operation /\ gdb'.attached = gdb.attached
    BY <1>0, <2>1 DEF State
  <2>4. Existing' = Existing /\ Selectable' = Selectable
    BY <2>3 DEF Existing, Thread, Selectable
  <2>5. Known'
    BY <1>0, <2>3, <2>4 DEF Known
  <2>6. RepliesRight'
    BY <2>3 DEF RepliesRight, Settled, Ready
  <2> QED BY <2>2, <2>5, <2>6 DEF Inv
<1> QED BY <1>1, <1>2

-----------------------------------------------------------------------------
(* The program runs.                                                        *)

LEMMA RunsStep ==
    ASSUME Inv, ProgramRuns, GdbTypeOK', gdb'.cur \in Existing', gdb'.client = gdb.client, gdb'.failed = gdb.failed,
           gdb'.attached = gdb.attached, gdb'.thread_for_operation = gdb.thread_for_operation, gdb'.known = gdb.known
    PROVE  Inv'
<1>1. gdb.client \in {"running", "detached"}
  BY DEF ProgramRuns
<1>2. Known'
  BY <1>1 DEF Inv, Known
<1>3. RepliesRight'
  BY <1>1 DEF RepliesRight, Settled
<1> QED BY <1>2, <1>3 DEF Inv

LEMMA SwitchStep ==
    ASSUME Inv, Switch
    PROVE  Inv'
<1>0. GdbTypeOK /\ gdb \in State
  BY DEF Inv, GdbTypeOK
<1>1. PICK t \in Existing : ProgramRuns /\ gdb' = [gdb EXCEPT !.cur = t]
  BY DEF Switch
<1>2. t \in Pids \X Tids
  BY <1>0, ExistingIs
<1>3. GdbTypeOK'
  BY <1>0, <1>1, <1>2 DEF GdbTypeOK, State
<1>4. /\ gdb'.threads = gdb.threads /\ gdb'.cur = t /\ gdb'.client = gdb.client /\ gdb'.failed = gdb.failed
      /\ gdb'.attached = gdb.attached /\ gdb'.thread_for_operation = gdb.thread_for_operation /\ gdb'.known = gdb.known
  BY <1>0, <1>1 DEF State
<1>5. Existing' = Existing
  BY <1>4 DEF Existing, Thread
<1> QED BY <1>1, <1>3, <1>4, <1>5, RunsStep

LEMMA CreateStep ==
    ASSUME Inv, CreateThread
    PROVE  Inv'
<1>0. GdbTypeOK /\ gdb \in State /\ Known
  BY DEF Inv, GdbTypeOK
<1>1. PICK t \in Tids : /\ ProgramRuns
                        /\ gdb' = [gdb EXCEPT !.threads[gdb.cur[1]] = Append(@, t), !.created = @ + 1]
  BY DEF CreateThread
<1>2. PICK p \in Pids, c \in Tids : gdb.cur = <<p, c>>
  BY <1>0 DEF State
<1>3. PICK q \in Seq(Tids) : q = gdb.threads[p]
  BY <1>0 DEF State
<1>4. Append(q, t) \in Seq(Tids)
  BY AppendProperties
<1>5. gdb' = [gdb EXCEPT !.threads = [gdb.threads EXCEPT ![p] = Append(q, t)], !.created = gdb.created + 1]
  BY <1>0, <1>1, <1>2, <1>3 DEF State
<1>6. [gdb.threads EXCEPT ![p] = Append(q, t)] \in [Pids -> Seq(Tids)]
  BY <1>0, <1>4 DEF State
<1>7. GdbTypeOK'
  <2> DEFINE threads == [gdb.threads EXCEPT ![p] = Append(q, t)]
  <2>1. gdb.created + 1 \in Nat
    BY <1>0 DEF State
  <2> HIDE DEF threads
  <2>2. gdb' = [gdb EXCEPT !.threads = threads, !.created = gdb.created + 1]
    BY <1>5 DEF threads
  <2>3. gdb' \in State
    BY <1>0, <1>6, <2>1, <2>2 DEF State, threads
  <2> QED BY <2>3 DEF GdbTypeOK
<1>8. /\ gdb'.threads = [gdb.threads EXCEPT ![p] = Append(q, t)]
      /\ gdb'.cur = gdb.cur /\ gdb'.client = gdb.client /\ gdb'.failed = gdb.failed
      /\ gdb'.attached = gdb.attached /\ gdb'.thread_for_operation = gdb.thread_for_operation /\ gdb'.known = gdb.known
  BY <1>0, <1>5 DEF State
<1>9. gdb'.cur \in Existing'
  <2>1. c \in ToSet(q)
    BY <1>0, <1>2, <1>3, ExistingIs DEF Known
  <2>2. gdb'.threads[p] = Append(q, t)
    BY <1>0, <1>8 DEF State
  <2>3. PICK i \in DOMAIN q : c = q[i]
    BY <2>1 DEF ToSet
  <2>4. i \in 1..Len(q) /\ Len(q) \in Nat
    BY <2>3, LenProperties
  <2>5. Append(q, t)[i] = c /\ i \in DOMAIN Append(q, t)
    <3>1. DOMAIN Append(q, t) = 1..(Len(q) + 1)
      BY <1>4, AppendProperties, LenProperties
    <3> QED BY <2>3, <2>4, <3>1, AppendProperties
  <2>6. c \in ToSet(Append(q, t))
    BY <2>5 DEF ToSet
  <2>7. <<p, c>> \in Existing'
    <3>1. <<p, c>> \in Thread(p)'
      BY <2>2, <2>6 DEF Thread
    <3> QED BY <3>1 DEF Existing
  <2> QED BY <1>2, <1>8, <2>7
<1> QED BY <1>1, <1>7, <1>8, <1>9, RunsStep

LEMMA ExitStep ==
    ASSUME Inv, ExitThread
    PROVE  Inv'
<1>0. GdbTypeOK /\ gdb \in State /\ Known
  BY DEF Inv, GdbTypeOK
<1>1. PICK t \in Existing \ {gdb.cur} : ProgramRuns /\ gdb' = [gdb EXCEPT !.threads[t[1]] = Erased(@, t[2])]
  BY DEF ExitThread
<1>2. PICK p \in Pids, e \in Tids : t = <<p, e>>
  BY <1>0, ExistingIs
<1>3. PICK q \in Seq(Tids) : q = gdb.threads[p]
  BY <1>0 DEF State
<1>4. Erased(q, e) \in Seq(Tids)
  BY ErasedProperties
<1>5. gdb' = [gdb EXCEPT !.threads = [gdb.threads EXCEPT ![p] = Erased(q, e)]]
  BY <1>0, <1>1, <1>2, <1>3 DEF State
<1>6. [gdb.threads EXCEPT ![p] = Erased(q, e)] \in [Pids -> Seq(Tids)]
  BY <1>0, <1>4 DEF State
<1>7. GdbTypeOK'
  BY <1>0, <1>5, <1>6 DEF GdbTypeOK, State
<1>8. /\ gdb'.threads = [gdb.threads EXCEPT ![p] = Erased(q, e)]
      /\ gdb'.cur = gdb.cur /\ gdb'.client = gdb.client /\ gdb'.failed = gdb.failed
      /\ gdb'.attached = gdb.attached /\ gdb'.thread_for_operation = gdb.thread_for_operation /\ gdb'.known = gdb.known
  BY <1>0, <1>5 DEF State
<1>9. gdb'.cur \in Existing'
  <2>1. PICK d \in Pids, c \in Tids : gdb.cur = <<d, c>>
    BY <1>0 DEF State
  <2>2. c \in ToSet(gdb.threads[d])
    BY <1>0, <2>1, ExistingIs DEF Known
  <2>3. CASE d # p
    <3>1. gdb'.threads[d] = gdb.threads[d]
      BY <1>0, <1>8, <2>3 DEF State
    <3>2. <<d, c>> \in Existing'
      BY <2>2, <3>1 DEF Existing, Thread
    <3> QED BY <1>8, <2>1, <3>2
  <2>4. CASE d = p
    <3>1. c # e
      BY <1>1, <1>2, <2>1, <2>4
    <3>2. PICK r \in Seq(Tids) : r = Erased(q, e)
      BY <1>4
    <3>3. DOMAIN q = 1..Len(q) /\ DOMAIN r = 1..Len(r)
      BY LenProperties
    <3>4. Contains(q, c)
      BY <1>3, <2>2, <2>4, <3>3 DEF Contains, ToSet
    <3>5. Contains(r, c)
      BY <3>1, <3>2, <3>4, ErasedProperties
    <3>6. c \in ToSet(r)
      BY <3>3, <3>5 DEF Contains, ToSet
    <3>7. gdb'.threads[p] = r
      BY <1>0, <1>8, <3>2 DEF State
    <3>8. <<p, c>> \in Existing'
      BY <3>6, <3>7 DEF Existing, Thread
    <3> QED BY <1>8, <2>1, <2>4, <3>8
  <2> QED BY <2>3, <2>4
<1> QED BY <1>1, <1>7, <1>8, <1>9, RunsStep

-----------------------------------------------------------------------------
(* The inductive invariant.                                                 *)

LEMMA InitInv ==
    ASSUME GdbInit
    PROVE  Inv
<1>1. PICK p \in Emulated :
        gdb = [threads |-> [q \in Pids |-> <<1>>],
               regs |-> [t \in Pids \X Tids |-> [r \in Regs |-> 0]],
               memory |-> [q \in Pids |-> [a \in Present |-> 0]],
               attached |-> <<>>, thread_for_operation |-> <<>>,
               core_running |-> FALSE, cur |-> <<p, 1>>, posted |-> <<>>, client |-> "detached",
               last |-> Nothing, selected |-> <<>>, known |-> {}, created |-> 0, edits |-> 0, failed |-> "none"]
  BY DEF GdbInit
<1>2. p \in Pids /\ 1 \in Tids /\ <<1>> \in Seq(Tids) /\ <<>> \in Seq(Pids)
  BY PacketsAssumption
<1>3. Nothing \in [packet : Packet, reply : Reply]
  BY DEF Nothing, Packet, Reply
<1>4. [q \in Pids |-> <<1>>] \in [Pids -> Seq(Tids)]
  BY <1>2
<1>5. GdbTypeOK
  <2>1. gdb \in State
    BY <1>1, <1>2, <1>3, <1>4 DEF State, Failures
  <2> QED BY <2>1 DEF GdbTypeOK
<1>6. gdb.cur \in Existing
  <2>1. gdb.threads[p] = <<1>> /\ gdb.cur = <<p, 1>>
    BY <1>1, <1>2
  <2>2. 1 \in ToSet(<<1>>)
    BY DEF ToSet
  <2>3. <<p, 1>> \in Thread(p)
    BY <2>1, <2>2 DEF Thread
  <2> QED BY <1>2, <2>1, <2>3 DEF Existing
<1>7. /\ gdb.client = "detached" /\ gdb.attached = <<>> /\ gdb.thread_for_operation = <<>> /\ gdb.known = {}
      /\ gdb.failed = "none"
  BY <1>1
<1>8. Known
  BY <1>6, <1>7 DEF Known
<1>9. RepliesRight
  BY <1>7 DEF RepliesRight, Settled
<1> QED BY <1>5, <1>8, <1>9 DEF Inv

LEMMA InspectStep ==
    ASSUME Inv, Inspect
    PROVE  Inv'
<1>1. CASE Receive(<<"g">>, ReadAll)
  BY <1>1, ReadAllStep
<1>2. CASE \E r \in Regs : Receive(<<"p", r>>, ReadRegister(r))
  BY <1>2, ReadRegisterStep
<1>3. CASE \E r \in Regs : Receive(<<"P", r, 1>>, WriteRegister(r, 1))
  BY <1>3, WriteRegisterStep
<1>4. CASE \E id \in Selectable : Receive(<<"H", id>>, Select(id))
  BY <1>4, SelectStep
<1>5. CASE \E a \in Addrs, n \in {1, Cardinality(Addrs)} : Receive(<<"m", a, n>>, ReadMemory(a, n))
  <2>1. PICK a \in Addrs, n \in {1, Cardinality(Addrs)} : Receive(<<"m", a, n>>, ReadMemory(a, n))
    BY <1>5
  <2>2. n \in Nat
    BY PacketsAssumption, FS_CardinalityType
  <2> QED BY <2>1, <2>2, ReadMemoryStep
<1>6. CASE \E a \in Addrs, data \in [1 .. Cardinality(Present) -> Bytes] : Receive(<<"X", a, data>>, WriteMemory(a, data))
  <2>1. PICK a \in Addrs, data \in [1 .. Cardinality(Present) -> Bytes] : Receive(<<"X", a, data>>, WriteMemory(a, data))
    BY <1>6
  <2>2. Cardinality(Present) \in Nat
    BY PacketsAssumption, FS_CardinalityType
  <2>3. data \in Seq(Bytes)
    BY <2>2, SeqDef
  <2> QED BY <2>1, <2>3, WriteMemoryStep
<1>7. CASE \E type \in {0, 1, 4} : Receive(<<"Z", type>>, Breakpoint(type))
  BY <1>7, BreakpointStep
<1> QED BY <1>1, <1>2, <1>3, <1>4, <1>5, <1>6, <1>7 DEF Inspect

LEMMA QueryStep ==
    ASSUME Inv, Query
    PROVE  Inv'
<1>1. CASE Receive(<<"?">>, Connected)
  <2> DEFINE packet == <<"?">>
             reply == IF gdb.attached = <<>> THEN <<"W00">> ELSE <<"assertion">>
  <2>1. packet[1] # "H" /\ packet[1] \notin Checked /\ Connected = Did(gdb, reply)
    BY DEF Checked, Connected
  <2> HIDE DEF reply
  <2> QED BY <1>1, <2>1, AnswerStep
<1>2. CASE \E p \in Pids : Receive(<<"qAttached", p>>, IsAttached(p))
  <2>1. PICK p \in Pids : Receive(<<"qAttached", p>>, IsAttached(p))
    BY <1>2
  <2> DEFINE packet == <<"qAttached", p>>
             reply == Data(<<p \in ToSet(gdb.attached)>>)
  <2>2. packet[1] # "H" /\ packet[1] \notin Checked
    BY DEF Checked
  <2>3. IsAttached(p) = Did(gdb, reply)
    BY DEF IsAttached
  <2> HIDE DEF reply
  <2> QED BY <2>1, <2>2, <2>3, AnswerStep
<1>3. CASE Receive(<<"qfThreadInfo">>, ThreadList)
  BY <1>3, ThreadListStep
<1>4. CASE \E t \in gdb.known : Receive(<<"qThreadExtraInfo", t>>, ThreadName(t))
  BY <1>4, ThreadNameStep
<1>5. CASE \E t \in gdb.known : Receive(<<"T", t>>, IsAlive(t))
  <2>1. PICK t \in gdb.known : Receive(<<"T", t>>, IsAlive(t))
    BY <1>5
  <2> DEFINE packet == <<"T", t>>
             reply == IF gdb.threads[t[1]] = <<>> THEN Error ELSE <<"OK">>
  <2>2. packet[1] # "H" /\ packet[1] \notin Checked /\ IsAlive(t) = Did(gdb, reply)
    BY DEF Checked, IsAlive
  <2> HIDE DEF reply
  <2> QED BY <2>1, <2>2, AnswerStep
<1>6. CASE Receive(<<"qC">>, Unsupported)
  <2> DEFINE packet == <<"qC">>
  <2>1. packet[1] # "H" /\ packet[1] \notin Checked /\ Unsupported = Did(gdb, <<"">>)
    BY DEF Checked, Unsupported
  <2> QED BY <1>6, <2>1, AnswerStep
<1> QED BY <1>1, <1>2, <1>3, <1>4, <1>5, <1>6 DEF Query

LEMMA ResumptionStep ==
    ASSUME Inv, Resume
    PROVE  Inv'
<1>1. CASE Receive(<<"vCont_c">>, Continue)
  BY <1>1, ContinueStep
<1>2. CASE \E id \in gdb.known : \E t \in Matches(id) : Receive(<<"vCont_s", id>>, StepIn(t))
  BY <1>2, StepInStep
<1>3. CASE \E p \in Pids : \E t \in IF p \in Emulated /\ gdb.threads[p] # <<>> THEN Thread(p) ELSE {gdb.cur} :
             Receive(<<"vAttach", p>>, Attach(p, t))
  <2>0. PICK p \in Pids : \E t \in IF p \in Emulated /\ gdb.threads[p] # <<>> THEN Thread(p) ELSE {gdb.cur} :
                            Receive(<<"vAttach", p>>, Attach(p, t))
    BY <1>3
  <2>1. PICK t \in IF p \in Emulated /\ gdb.threads[p] # <<>> THEN Thread(p) ELSE {gdb.cur} :
               Receive(<<"vAttach", p>>, Attach(p, t))
    BY <2>0
  <2>2. p \in Emulated /\ gdb.threads[p] # <<>> => t \in Thread(p)
    OBVIOUS
  <2> QED BY <2>1, <2>2, AttachStep
<1> QED BY <1>1, <1>2, <1>3 DEF Resume

LEMMA NextInv ==
    ASSUME Inv, [GdbNext]_gdb
    PROVE  Inv'
<1>1. CASE Posted
  <2>1. ReportSignal(gdb.posted, "stopped") /\ gdb.posted \in Existing
    BY <1>1 DEF Posted, Inv, Known
  <2>2. PICK t : t = gdb.posted
    OBVIOUS
  <2> QED BY <2>1, <2>2, SignalStep
<1>2. CASE UNCHANGED gdb
  <2>1. Existing' = Existing
    BY <1>2 DEF Existing, Thread
  <2>2. ThreadForOperation' = ThreadForOperation
    BY <1>2, TargetStays
  <2>3. GdbTypeOK'
    BY <1>2 DEF Inv, GdbTypeOK
  <2>4. Known'
    BY <1>2, <2>1 DEF Inv, Known, Selectable
  <2>5. RepliesRight'
    BY <1>2, <2>2 DEF Inv, RepliesRight, Settled, Ready
  <2> QED BY <2>3, <2>4, <2>5 DEF Inv
<1> QED BY <1>1, <1>2, SwitchStep, CreateStep, ExitStep, InspectStep, QueryStep, ResumptionStep, InterruptStep DEF GdbNext

(* GDB and the stub mean the same thread whenever GDB may look at one. *)
LEMMA InvSelection ==
    ASSUME Inv
    PROVE  SelectionAgrees
BY DEF Inv, Known, SelectionAgrees, Settled

-----------------------------------------------------------------------------
(* The theorems.                                                            *)

THEOREM InvHolds == GdbSpec => []Inv
BY InitInv, NextInv, PTL DEF GdbSpec

(* The state of the stub, of the program and of GDB stays in its domain. *)
THEOREM TypeCorrect == GdbSpec => []GdbTypeOK
<1>1. Inv => GdbTypeOK
  BY DEF Inv
<1> QED BY <1>1, InvHolds, PTL

(* GDB and the stub mean the same thread after every stop, whatever ran, was created or ended
   before it, and GDB reads and writes the registers and the memory of that thread
   (HandlePacket, ReportSignal), however many bytes of what it writes are escaped. *)
THEOREM InspectionHolds == GdbSpec => []InspectionRight
<1>1. Inv => InspectionRight
  BY InvSelection DEF Inv, InspectionRight
<1> QED BY <1>1, InvHolds, PTL
=============================================================================
