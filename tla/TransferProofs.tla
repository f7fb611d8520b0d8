---------------------------- MODULE TransferProofs ----------------------------
(***************************************************************************)
(* Proofs about a transfer, for files, buffers and integers of any size:   *)
(* its type invariant, that what is stored is a prefix of what was sent,   *)
(* and that a file recv_file accepts is whole.                             *)
(***************************************************************************)
EXTENDS Transfer, SequenceTheorems, TLAPS

\* What is stored and what is on its way follow each other without a gap, and
\* after an error that was taken for data nothing comes any more.
FlowInv ==
    /\ ~ Spoiled => /\ \A i \in 1..Len(stored) : stored[i] = i
                    /\ Len(stored) + Len(wire) <= sent
    /\ \A i \in 1..Len(wire) : wire[i] = Len(stored) + i
    /\ link = "up" => Len(stored) + Len(wire) = sent
    /\ Spoiled => wire = <<>> /\ link = "ended"

\* The total is the length of what is stored, and the size is the file's.
CountInv ==
    /\ ~ Spoiled => total_bytes_read = Len(stored)
    /\ size <= MaxInt =>
          /\ header \in {size, NoInt}
          /\ ~ guessed /\ (receiving = "data" \/ result = "stored") => file_size = size
    /\ result = "stored" => receiving = "returned" /\ ~ More

IInv == TransferTypeOK /\ FlowInv /\ CountInv

-----------------------------------------------------------------------------
(* Sequences and the conversions of integers                               *)

\* A number in range is its own remainder.
LEMMA SmallMod ==
    ASSUME NEW a \in Nat, NEW b \in Nat, a < b
    PROVE  a % b = a
OBVIOUS

\* A size that has an int is announced as itself, and stays so as a size_t.
LEMMA ToIntOfInt ==
    ASSUME NEW n \in Nat, n <= MaxInt
    PROVE  ToInt(n) = n /\ ToSize(n) = n
<1>1. MaxInt \in Nat /\ SizeModulus \in Nat /\ MaxInt < SizeModulus - 1
  BY TransferAssumption
<1>2. (n + MaxInt + 1) % (2 * (MaxInt + 1)) = n + MaxInt + 1
  BY <1>1, SmallMod
<1>3. n % SizeModulus = n
  BY <1>1, SmallMod
<1> QED
  BY <1>1, <1>2, <1>3 DEF ToInt, ToSize

\* The conversion to int gives an int.
LEMMA ToIntType ==
    ASSUME NEW n \in Nat
    PROVE  ToInt(n) \in Ints
<1>1. MaxInt \in Nat
  BY TransferAssumption
<1>2. (n + MaxInt + 1) % (2 * (MaxInt + 1)) \in 0 .. 2 * (MaxInt + 1) - 1
  BY <1>1
<1> QED
  BY <1>1, <1>2 DEF ToInt, Ints

\* What a run of consecutive bytes is.
LEMMA BytesProperties ==
    ASSUME NEW k \in Nat, NEW n \in Nat, NEW m \in Nat, k + n <= m
    PROVE  /\ Bytes(k, n) \in Seq(1..m)
           /\ Bytes(k, n) \in Seq(0..m)
           /\ Len(Bytes(k, n)) = n
           /\ \A i \in 1..n : Bytes(k, n)[i] = k + i
<1>1. Bytes(k, n) \in [1..n -> 1..m] /\ Bytes(k, n) \in [1..n -> 0..m]
  BY DEF Bytes
<1>2. Bytes(k, n) \in Seq(1..m) /\ Bytes(k, n) \in Seq(0..m)
  BY <1>1, IsASeq
<1>3. Len(Bytes(k, n)) = n
  BY <1>1, <1>2, LenProperties
<1> QED
  BY <1>2, <1>3 DEF Bytes

\* The two parts into which a sequence is cut.
LEMMA CutProperties ==
    ASSUME NEW S, NEW s \in Seq(S), NEW n \in 0..Len(s)
    PROVE  /\ SubSeq(s, 1, n) \in Seq(S)
           /\ Len(SubSeq(s, 1, n)) = n
           /\ \A i \in 1..n : SubSeq(s, 1, n)[i] = s[i]
           /\ SubSeq(s, n + 1, Len(s)) \in Seq(S)
           /\ Len(SubSeq(s, n + 1, Len(s))) = Len(s) - n
           /\ \A i \in 1 .. Len(s) - n : SubSeq(s, n + 1, Len(s))[i] = s[n + i]
<1>1. Len(s) \in Nat /\ \A i \in 1..Len(s) : s[i] \in S
  BY LenProperties
<1>2. /\ SubSeq(s, 1, n) \in Seq(S)
      /\ Len(SubSeq(s, 1, n)) = IF 1 <= n THEN n - 1 + 1 ELSE 0
      /\ \A i \in 1 .. n - 1 + 1 : SubSeq(s, 1, n)[i] = s[1 + i - 1]
  <2>1. \A i \in 1..n : s[i] \in S
    BY <1>1
  <2>2. 1 \in Int /\ n \in Int
    BY <1>1
  <2> QED
    BY <2>1, <2>2, SubSeqProperties
<1>3. /\ SubSeq(s, n + 1, Len(s)) \in Seq(S)
      /\ Len(SubSeq(s, n + 1, Len(s))) =
            IF n + 1 <= Len(s) THEN Len(s) - (n + 1) + 1 ELSE 0
      /\ \A i \in 1 .. Len(s) - (n + 1) + 1 :
            SubSeq(s, n + 1, Len(s))[i] = s[(n + 1) + i - 1]
  <2>1. \A i \in n + 1 .. Len(s) : s[i] \in S
    BY <1>1
  <2>2. n + 1 \in Int /\ Len(s) \in Int
    BY <1>1
  <2> QED
    BY <2>1, <2>2, SubSeqProperties
<1> QED
  BY <1>1, <1>2, <1>3

\* A remainder is below the modulus.
LEMMA ModType ==
    ASSUME NEW a \in Nat, NEW b \in Nat \ {0}
    PROVE  a % b \in 0 .. b - 1
OBVIOUS

\* Whether an error was taken for data depends on what is stored only.
LEMMA SpoiledSame ==
    ASSUME UNCHANGED stored
    PROVE  Spoiled' <=> Spoiled
BY DEF Spoiled

\* Whether there is more to receive depends on the two counts only.
LEMMA MoreSame ==
    ASSUME UNCHANGED <<file_size, total_bytes_read>>
    PROVE  More' <=> More
BY DEF More

-----------------------------------------------------------------------------
(* The invariant holds initially                                           *)

LEMMA InitInv == TransferInit => IInv
<1> SUFFICES ASSUME TransferInit PROVE IInv
  OBVIOUS
<1> USE DEF TransferInit
<1>1. /\ Len(wire) = 0 /\ wire \in Seq(1..size)
      /\ Len(stored) = 0 /\ stored \in Seq(0..size)
  OBVIOUS
<1>2. ~ Spoiled
  <2>1. DOMAIN stored = {}
    OBVIOUS
  <2> QED
    BY <2>1 DEF Spoiled, Range
<1>3. TransferTypeOK
  <2>1. 0 \in Ints /\ 0 \in 0 .. SizeModulus - 1 /\ 0 \in 0..size
    BY TransferAssumption DEF Ints
  <2> QED
    BY <1>1, <2>1 DEF TransferTypeOK
<1>4. FlowInv
  BY <1>1, <1>2, TransferAssumption DEF FlowInv
<1>5. CountInv
  BY <1>1, <1>2 DEF CountInv
<1> QED
  BY <1>3, <1>4, <1>5 DEF IInv

-----------------------------------------------------------------------------
(* Every step of the client preserves it                                   *)

LEMMA SendSizeInv == IInv /\ SendSize => IInv'
<1> SUFFICES ASSUME IInv, SendSize PROVE IInv'
  OBVIOUS
<1> USE DEF SendSize, sender, receiver
<1>1. size \in Nat
  BY TransferAssumption DEF IInv, TransferTypeOK
<1>2. ToInt(size) \in Ints /\ (size <= MaxInt => ToInt(size) = size)
  BY <1>1, ToIntType, ToIntOfInt
<1>3. TransferTypeOK'
  BY <1>2 DEF IInv, TransferTypeOK, NoInt
<1>4. FlowInv'
  BY SpoiledSame DEF IInv, FlowInv
<1>5. CountInv'
  BY <1>2, SpoiledSame, MoreSame DEF IInv, CountInv
<1> QED
  BY <1>3, <1>4, <1>5 DEF IInv

LEMMA SendDataInv == IInv /\ SendData => IInv'
<1> SUFFICES ASSUME IInv, SendData PROVE IInv'
  OBVIOUS
<1> DEFINE n == Min(BufferSize, size - sent)
<1> USE DEF sender, receiver
<1>1. /\ n \in Nat /\ sent \in Nat /\ size \in Nat /\ sent + n <= size
      /\ wire \in Seq(1..size)
  BY TransferAssumption DEF IInv, TransferTypeOK, Min
<1>2. /\ link = "up" /\ UNCHANGED <<size, header, link, receiver>>
      /\ wire' = wire \o Bytes(sent, n) /\ sent' = sent + n
      /\ sending' \in {"data", "reply"}
  BY DEF SendData
<1> HIDE DEF n
<1>3. /\ Bytes(sent, n) \in Seq(1..size)
      /\ Len(Bytes(sent, n)) = n
      /\ \A i \in 1..n : Bytes(sent, n)[i] = sent + i
  BY <1>1, BytesProperties
<1>4. /\ wire' \in Seq(1..size)
      /\ Len(wire) \in Nat
      /\ Len(wire') = Len(wire) + n
      /\ \A i \in 1 .. Len(wire) + n :
            wire'[i] = IF i <= Len(wire) THEN wire[i] ELSE Bytes(sent, n)[i - Len(wire)]
  <2>1. Len(wire) \in Nat
    BY <1>1
  <2>2. /\ wire \o Bytes(sent, n) \in Seq(1..size)
        /\ Len(wire \o Bytes(sent, n)) = Len(wire) + Len(Bytes(sent, n))
        /\ \A i \in 1 .. Len(wire) + Len(Bytes(sent, n)) :
              (wire \o Bytes(sent, n))[i] =
                 IF i <= Len(wire) THEN wire[i] ELSE Bytes(sent, n)[i - Len(wire)]
    BY <1>1, <1>3, ConcatProperties
  <2> QED
    BY <2>1, <2>2, <1>2, <1>3
<1>5. Len(stored) \in Nat /\ Len(stored) + Len(wire) = sent
  BY <1>2 DEF IInv, FlowInv, TransferTypeOK
<1>6. TransferTypeOK'
  BY <1>1, <1>2, <1>4 DEF IInv, TransferTypeOK, NoInt, Ints
<1>7. ~ Spoiled /\ ~ Spoiled'
  BY <1>2, SpoiledSame DEF IInv, FlowInv
<1>8. FlowInv'
  <2>1. \A i \in 1..Len(wire') : wire'[i] = Len(stored) + i
    <3> SUFFICES ASSUME NEW i \in 1..Len(wire') PROVE wire'[i] = Len(stored) + i
      OBVIOUS
    <3>1. CASE i <= Len(wire)
      <4>1. i \in 1..Len(wire) /\ i \in 1 .. Len(wire) + n
        BY <3>1, <1>1, <1>4
      <4>2. wire'[i] = wire[i]
        BY <4>1, <3>1, <1>4
      <4>3. wire[i] = Len(stored) + i
        BY <4>1 DEF IInv, FlowInv
      <4> QED
        BY <4>2, <4>3
    <3>2. CASE i > Len(wire)
      <4>1. i - Len(wire) \in 1..n
        BY <3>2, <1>1, <1>4
      <4>2. wire'[i] = sent + (i - Len(wire))
        BY <4>1, <3>2, <1>1, <1>3, <1>4
      <4>3. i \in Int /\ Len(wire) \in Int /\ Len(stored) \in Int
        BY <1>1, <1>4, <1>5
      <4> QED
        BY <4>2, <4>3, <1>5
    <3> QED
      BY <3>1, <3>2, <1>1, <1>4
  <2>2. stored' = stored /\ link' = link
    BY <1>2
  <2>3. Len(stored) + Len(wire') = sent' /\ sent' \in Nat
    <3>1. Len(wire') = Len(wire) + n /\ Len(wire) \in Nat
      BY <1>4
    <3>2. sent' = sent + n
      BY <1>2
    <3>3. n \in Nat /\ sent \in Nat
      BY <1>1
    <3> QED
      BY <3>1, <3>2, <3>3, <1>5
  <2>4. \A i \in 1..Len(stored) : stored[i] = i
    BY <1>7 DEF IInv, FlowInv
  <2> QED
    BY <2>1, <2>2, <2>3, <2>4, <1>7 DEF FlowInv
<1>9. CountInv'
  BY <1>2, <1>7, MoreSame DEF IInv, CountInv
<1> QED
  BY <1>6, <1>8, <1>9 DEF IInv

LEMMA SendFailsInv == IInv /\ SendFails => IInv'
<1> SUFFICES ASSUME IInv, SendFails PROVE IInv'
  OBVIOUS
<1> USE DEF SendFails, sender, receiver
<1>1. TransferTypeOK'
  BY DEF IInv, TransferTypeOK, Ints, NoInt
<1>2. FlowInv'
  BY SpoiledSame DEF IInv, FlowInv
<1>3. CountInv'
  BY SpoiledSame, MoreSame DEF IInv, CountInv
<1> QED
  BY <1>1, <1>2, <1>3 DEF IInv

-----------------------------------------------------------------------------
(* So does every step of the connection                                    *)

LEMMA CloseInv == IInv /\ Close => IInv'
<1> SUFFICES ASSUME IInv, Close PROVE IInv'
  OBVIOUS
<1> USE DEF Close, sender, receiver
<1>1. TransferTypeOK'
  BY DEF IInv, TransferTypeOK, Ints, NoInt
<1>2. FlowInv'
  BY SpoiledSame DEF IInv, FlowInv
<1>3. CountInv'
  BY SpoiledSame, MoreSame DEF IInv, CountInv
<1> QED
  BY <1>1, <1>2, <1>3 DEF IInv

LEMMA ResetInv == IInv /\ Reset => IInv'
<1> SUFFICES ASSUME IInv, Reset PROVE IInv'
  OBVIOUS
<1> USE DEF sender, receiver
<1>1. /\ link = "up" /\ link' = "reset" /\ UNCHANGED <<sender, receiver>>
      /\ header' \in {header, NoInt}
  BY DEF Reset
<1>2. PICK n \in 0..Len(wire) : wire' = SubSeq(wire, 1, n)
  BY DEF Reset
<1>3. wire \in Seq(1..size) /\ Len(wire) \in Nat /\ Len(stored) \in Nat
  BY DEF IInv, TransferTypeOK
<1>4. /\ wire' \in Seq(1..size) /\ Len(wire') = n
      /\ \A i \in 1..n : wire'[i] = wire[i]
  BY <1>2, <1>3, CutProperties
<1>5. ~ Spoiled /\ ~ Spoiled'
  BY <1>1, SpoiledSame DEF IInv, FlowInv
<1>6. TransferTypeOK'
  BY <1>1, <1>4 DEF IInv, TransferTypeOK, Ints, NoInt
<1>7. FlowInv'
  <2>1. Len(stored) + n <= sent
    BY <1>3, <1>5 DEF IInv, FlowInv, TransferTypeOK
  <2> QED
    BY <2>1, <1>1, <1>3, <1>4, <1>5 DEF IInv, FlowInv
<1>8. CountInv'
  BY <1>1, <1>5, MoreSame DEF IInv, CountInv
<1> QED
  BY <1>6, <1>7, <1>8 DEF IInv

-----------------------------------------------------------------------------
(* So does every step of the server                                        *)

LEMMA OpenFileInv == IInv /\ OpenFile => IInv'
<1> SUFFICES ASSUME IInv, OpenFile PROVE IInv'
  OBVIOUS
<1> USE DEF OpenFile, sender
<1>1. TransferTypeOK'
  BY DEF IInv, TransferTypeOK, Ints, NoInt
<1>2. FlowInv'
  BY SpoiledSame DEF IInv, FlowInv
<1>3. CountInv'
  BY SpoiledSame, MoreSame DEF IInv, CountInv
<1> QED
  BY <1>1, <1>2, <1>3 DEF IInv

\* Whichever way recv_file comes to a size.
LEMMA TakeSizeInv ==
    ASSUME IInv, file_size' \in Ints, TakeSize(file_size'),
           header' \in {header, NoInt}, guessed' \in BOOLEAN,
           link' = link \/ (link = "reset" /\ link' = "ended"),
           size <= MaxInt /\ ~ guessed' => file_size' \in {size, -1}
    PROVE  IInv'
<1> USE DEF TakeSize, sender
<1>1. TransferTypeOK'
  BY DEF IInv, TransferTypeOK, NoInt
<1>2. FlowInv'
  BY SpoiledSame DEF IInv, FlowInv
<1>3. CountInv'
  BY SpoiledSame DEF IInv, CountInv
<1> QED
  BY <1>1, <1>2, <1>3 DEF IInv

LEMMA RecvSizeInv == IInv /\ RecvSize => IInv'
<1> SUFFICES ASSUME IInv, RecvSize PROVE IInv'
  OBVIOUS
<1>1. /\ file_size' = header /\ header \in Ints /\ TakeSize(file_size')
      /\ header' = NoInt /\ guessed' \in BOOLEAN /\ link' = link
  BY DEF RecvSize, TakeSize, IInv, TransferTypeOK, NoInt
<1>2. size <= MaxInt => file_size' = size
  BY <1>1 DEF RecvSize, IInv, CountInv
<1> QED
  BY <1>1, <1>2, TakeSizeInv

LEMMA RecvNoSizeInv == IInv /\ RecvNoSize => IInv'
<1> SUFFICES ASSUME IInv, RecvNoSize PROVE IInv'
  OBVIOUS
<1>1. file_size' \in Ints /\ TakeSize(file_size')
  BY DEF RecvNoSize, TakeSize
<1>2. header' = header /\ link' = link /\ guessed' \in BOOLEAN /\ guessed'
  BY DEF RecvNoSize
<1> QED
  BY <1>1, <1>2, TakeSizeInv

LEMMA RecvSizeFailsInv == IInv /\ RecvSizeFails => IInv'
<1> SUFFICES ASSUME IInv, RecvSizeFails PROVE IInv'
  OBVIOUS
<1>1. file_size' = -1 /\ file_size' \in Ints /\ TakeSize(file_size')
  BY TransferAssumption DEF RecvSizeFails, TakeSize, Ints
<1>2. /\ header' = header /\ guessed' = guessed
      /\ link = "reset" /\ link' = "ended" /\ guessed \in BOOLEAN
  BY DEF RecvSizeFails, IInv, TransferTypeOK
<1> QED
  BY <1>1, <1>2, TakeSizeInv

LEMMA RecvDataInv == IInv /\ RecvData => IInv'
<1> SUFFICES ASSUME IInv, RecvData PROVE IInv'
  OBVIOUS
<1> USE DEF sender
<1>1. PICK n \in 1..Min(BufferSize, Len(wire)) :
         /\ stored' = stored \o SubSeq(wire, 1, n)
         /\ wire' = SubSeq(wire, n + 1, Len(wire))
         /\ total_bytes_read' = (total_bytes_read + n) % SizeModulus
  BY DEF RecvData
<1>2. /\ receiving = "data"
      /\ UNCHANGED <<size, sending, sent, header, link, receiving, open, file_size,
                     guessed, result>>
  BY DEF RecvData
<1>3. /\ size \in Nat /\ size < SizeModulus /\ sent \in 0..size
      /\ wire \in Seq(1..size) /\ wire \in Seq(0..size) /\ stored \in Seq(0..size)
      /\ Len(wire) \in Nat /\ Len(stored) \in Nat
  BY TransferAssumption DEF IInv, TransferTypeOK
<1>4. n \in 1..Len(wire) /\ n \in 0..Len(wire)
  BY <1>1, <1>3, TransferAssumption DEF Min
<1>5. ~ Spoiled
  BY <1>4 DEF IInv, FlowInv
<1>6. /\ \A i \in 1..Len(stored) : stored[i] = i
      /\ Len(stored) + Len(wire) <= sent
      /\ \A i \in 1..Len(wire) : wire[i] = Len(stored) + i
      /\ link = "up" => Len(stored) + Len(wire) = sent
  BY <1>5 DEF IInv, FlowInv
<1>7. /\ SubSeq(wire, 1, n) \in Seq(0..size)
      /\ Len(SubSeq(wire, 1, n)) = n
      /\ \A i \in 1..n : SubSeq(wire, 1, n)[i] = wire[i]
  BY <1>3, <1>4, CutProperties
<1>8. /\ wire' \in Seq(1..size)
      /\ Len(wire') = Len(wire) - n
      /\ \A i \in 1 .. Len(wire) - n : wire'[i] = wire[n + i]
  BY <1>1, <1>3, <1>4, CutProperties
<1>9. /\ stored' \in Seq(0..size)
      /\ Len(stored') = Len(stored) + n
      /\ \A i \in 1 .. Len(stored) + n :
            stored'[i] = IF i <= Len(stored) THEN stored[i]
                                             ELSE SubSeq(wire, 1, n)[i - Len(stored)]
  BY <1>1, <1>3, <1>7, ConcatProperties
<1>10. \A i \in 1..Len(stored') : stored'[i] = i
  <2> SUFFICES ASSUME NEW i \in 1..Len(stored') PROVE stored'[i] = i
    OBVIOUS
  <2>1. CASE i <= Len(stored)
    <3>1. i \in 1..Len(stored) /\ i \in 1 .. Len(stored) + n
      BY <2>1, <1>3, <1>4, <1>9
    <3> QED
      BY <3>1, <2>1, <1>6, <1>9
  <2>2. CASE i > Len(stored)
    <3>1. i - Len(stored) \in 1..n /\ i - Len(stored) \in 1..Len(wire)
      BY <2>2, <1>3, <1>4, <1>9
    <3>2. i \in 1 .. Len(stored) + n /\ ~ (i <= Len(stored)) /\ i \in Int
      BY <2>2, <1>3, <1>4, <1>9
    <3>3. stored'[i] = SubSeq(wire, 1, n)[i - Len(stored)]
      BY <3>2, <1>9
    <3>4. stored'[i] = wire[i - Len(stored)]
      BY <3>1, <3>3, <1>7
    <3>5. wire[i - Len(stored)] = Len(stored) + (i - Len(stored))
      BY <3>1, <1>6
    <3> QED
      BY <3>2, <3>4, <3>5, <1>3
  <2> QED
    BY <2>1, <2>2, <1>3, <1>4, <1>9
<1>11. ~ Spoiled'
  <2>1. \A i \in 1..Len(stored') : stored'[i] # NoByte
    BY <1>3, <1>4, <1>9, <1>10 DEF NoByte
  <2> QED
    BY <2>1, <1>9, RangeEquality DEF Spoiled, NoByte
<1>12. total_bytes_read' = Len(stored')
  <2>1. total_bytes_read = Len(stored)
    BY <1>5 DEF IInv, CountInv
  <2>2. Len(stored) + n \in Nat /\ SizeModulus \in Nat /\ Len(stored) + n < SizeModulus
    BY <1>3, <1>4, <1>6, TransferAssumption
  <2> QED
    BY <2>1, <2>2, <1>1, <1>9, SmallMod
<1>13. TransferTypeOK'
  <2>1. total_bytes_read' \in 0 .. SizeModulus - 1
    <3>1. total_bytes_read' = Len(stored) + n /\ Len(stored) + n <= size
      BY <1>3, <1>4, <1>6, <1>9, <1>12
    <3> QED
      BY <3>1, <1>3, <1>4, TransferAssumption
  <2> QED
    BY <2>1, <1>2, <1>8, <1>9 DEF IInv, TransferTypeOK, Ints, NoInt
<1>14. FlowInv'
  <2>1. \A i \in 1..Len(wire') : wire'[i] = Len(stored') + i
    <3> SUFFICES ASSUME NEW i \in 1..Len(wire') PROVE wire'[i] = Len(stored') + i
      OBVIOUS
    <3>1. i \in 1 .. Len(wire) - n /\ n + i \in 1..Len(wire) /\ i \in Int /\ n \in Int
      BY <1>3, <1>4, <1>8
    <3>2. wire'[i] = wire[n + i]
      BY <3>1, <1>8
    <3>3. wire[n + i] = Len(stored) + (n + i)
      BY <3>1, <1>6
    <3> QED
      BY <3>1, <3>2, <3>3, <1>3, <1>9
  <2>2. Len(stored') + Len(wire') = Len(stored) + Len(wire)
    BY <1>3, <1>4, <1>8, <1>9
  <2> QED
    BY <2>1, <2>2, <1>2, <1>6, <1>10, <1>11 DEF FlowInv
<1>15. CountInv'
  BY <1>2, <1>11, <1>12 DEF IInv, CountInv
<1> QED
  BY <1>13, <1>14, <1>15 DEF IInv

\* Whatever recv_file returns behind its loop.
LEMMA ReturnsInv ==
    ASSUME IInv, NEW value \in {"stored", "failed"}, Returns(value),
           value = "stored" => ~ More
    PROVE  IInv'
<1> USE DEF Returns, sender
<1>1. TransferTypeOK'
  BY DEF IInv, TransferTypeOK, Ints, NoInt
<1>2. FlowInv'
  BY SpoiledSame DEF IInv, FlowInv
<1>3. CountInv'
  BY SpoiledSame, MoreSame DEF IInv, CountInv
<1> QED
  BY <1>1, <1>2, <1>3 DEF IInv

LEMMA RecvFailsInv == IInv /\ RecvFails => IInv'
<1> SUFFICES ASSUME IInv, RecvFails PROVE IInv'
  OBVIOUS
<1> USE DEF sender
<1>1. /\ receiving = "data" /\ wire = << >> /\ wire' = << >> /\ link' = "ended"
      /\ total_bytes_read' = (total_bytes_read + (SizeModulus - 1)) % SizeModulus
      /\ stored' = Append(stored, NoByte)
      /\ UNCHANGED <<size, sending, sent, header, receiving, open, file_size, guessed,
                     result>>
  BY DEF RecvFails
<1>2. stored \in Seq(0..size) /\ NoByte \in 0..size /\ Len(stored) \in Nat
  BY TransferAssumption DEF IInv, TransferTypeOK, NoByte
<1>3. /\ stored' \in Seq(0..size)
      /\ Len(stored') = Len(stored) + 1
      /\ stored'[Len(stored) + 1] = NoByte
  BY <1>1, <1>2, AppendProperties
<1>4. Spoiled'
  BY <1>2, <1>3, RangeEquality DEF Spoiled, NoByte
<1>5. total_bytes_read' \in 0 .. SizeModulus - 1
  <2>1. /\ total_bytes_read + (SizeModulus - 1) \in Nat
        /\ SizeModulus \in Nat \ {0}
    BY TransferAssumption DEF IInv, TransferTypeOK
  <2> QED
    BY <2>1, <1>1, ModType
<1>6. TransferTypeOK'
  BY <1>1, <1>3, <1>5 DEF IInv, TransferTypeOK, Ints, NoInt
<1>7. FlowInv'
  BY <1>1, <1>4 DEF FlowInv
<1>8. CountInv'
  BY <1>1, <1>4 DEF IInv, CountInv
<1> QED
  BY <1>6, <1>7, <1>8 DEF IInv

LEMMA RecvCrashesInv == IInv /\ RecvCrashes => IInv'
<1> SUFFICES ASSUME IInv, RecvCrashes PROVE IInv'
  OBVIOUS
<1> USE DEF RecvCrashes, sender
<1>1. TransferTypeOK'
  BY DEF IInv, TransferTypeOK, Ints, NoInt
<1>2. FlowInv'
  BY SpoiledSame DEF IInv, FlowInv
<1>3. CountInv'
  BY SpoiledSame DEF IInv, CountInv
<1> QED
  BY <1>1, <1>2, <1>3 DEF IInv

-----------------------------------------------------------------------------

LEMMA StutterInv == IInv /\ UNCHANGED transferVars => IInv'
<1> SUFFICES ASSUME IInv, UNCHANGED transferVars PROVE IInv'
  OBVIOUS
<1> USE DEF transferVars, sender, receiver
<1>1. TransferTypeOK'
  BY DEF IInv, TransferTypeOK, Ints, NoInt
<1>2. FlowInv'
  BY SpoiledSame DEF IInv, FlowInv
<1>3. CountInv'
  BY SpoiledSame, MoreSame DEF IInv, CountInv
<1> QED
  BY <1>1, <1>2, <1>3 DEF IInv

\* One step per action.
LEMMA StepInv == IInv /\ [TransferNext]_transferVars => IInv'
<1> SUFFICES ASSUME IInv, [TransferNext]_transferVars PROVE IInv'
  OBVIOUS
<1>1. CASE Sends
  BY <1>1, SendSizeInv, SendDataInv, SendFailsInv DEF Sends
<1>2. CASE Close \/ Reset
  BY <1>2, CloseInv, ResetInv
<1>3. CASE OpenFile \/ RecvSize \/ RecvNoSize \/ RecvSizeFails
  BY <1>3, OpenFileInv, RecvSizeInv, RecvNoSizeInv, RecvSizeFailsInv
<1>4. CASE RecvData \/ RecvFails \/ RecvCrashes
  BY <1>4, RecvDataInv, RecvFailsInv, RecvCrashesInv
<1>5. CASE RecvEnds
  BY <1>5, ReturnsInv DEF RecvEnds
<1>6. CASE RecvReturns
  BY <1>6, ReturnsInv DEF RecvReturns
<1>7. CASE UNCHANGED transferVars
  BY <1>7, StutterInv
<1> QED
  BY <1>1, <1>2, <1>3, <1>4, <1>5, <1>6, <1>7 DEF TransferNext, Receives

LEMMA TransferInvariant == TransferSpec => []IInv
BY InitInv, StepInv, PTL DEF TransferSpec

(***************************************************************************)
(* Every variable of a transfer keeps its type: the size that is received  *)
(* is an int and the total a size_t, after an error of recv too            *)
(* (common.c:56-83).                                                       *)
(***************************************************************************)
THEOREM TransferTypes == TransferSpec => []TransferTypeOK
<1>1. IInv => TransferTypeOK
  BY DEF IInv
<1> QED
  BY <1>1, TransferInvariant, PTL

(***************************************************************************)
(* What is stored is a prefix of what was sent, and what is on its way     *)
(* goes on from there, for any pieces and wherever the connection ends     *)
(* (common.c:69-82, 106-116).                                              *)
(***************************************************************************)
THEOREM NothingIsOutOfPlace == TransferSpec => []StoredGoesOn
<1>1. IInv => StoredGoesOn
  <2> SUFFICES ASSUME IInv, ~ Spoiled
               PROVE  stored \o wire = Bytes(0, Len(stored) + Len(wire))
    BY DEF StoredGoesOn
  <2> DEFINE n == Len(stored) + Len(wire)
  <2>1. /\ stored \in Seq(0..size) /\ wire \in Seq(0..size)
        /\ Len(stored) \in Nat /\ Len(wire) \in Nat /\ size \in Nat /\ n <= size
        /\ \A i \in 1..Len(stored) : stored[i] = i
        /\ \A i \in 1..Len(wire) : wire[i] = Len(stored) + i
    BY TransferAssumption DEF IInv, TransferTypeOK, FlowInv
  <2>2. /\ stored \o wire \in Seq(0..size)
        /\ Len(stored \o wire) = n
        /\ \A i \in 1..n : (stored \o wire)[i] =
              IF i <= Len(stored) THEN stored[i] ELSE wire[i - Len(stored)]
    BY <2>1, ConcatProperties
  <2>3. /\ Bytes(0, n) \in Seq(0..size)
        /\ Len(Bytes(0, n)) = n
        /\ \A i \in 1..n : Bytes(0, n)[i] = i
    <3>1. n \in Nat /\ 0 \in Nat /\ 0 + n <= size
      BY <2>1
    <3> HIDE DEF n
    <3>2. /\ Bytes(0, n) \in Seq(0..size)
          /\ Len(Bytes(0, n)) = n
          /\ \A i \in 1..n : Bytes(0, n)[i] = 0 + i
      BY <3>1, <2>1, BytesProperties
    <3> QED
      BY <3>1, <3>2
  <2>4. \A i \in 1..n : (stored \o wire)[i] = i
    <3> SUFFICES ASSUME NEW i \in 1..n PROVE (stored \o wire)[i] = i
      OBVIOUS
    <3>1. CASE i <= Len(stored)
      BY <3>1, <2>1, <2>2
    <3>2. CASE i > Len(stored)
      <4>1. i - Len(stored) \in 1..Len(wire)
        BY <3>2, <2>1
      <4> QED
        BY <4>1, <3>2, <2>1, <2>2
    <3> QED
      BY <3>1, <3>2, <2>1
  <2> HIDE DEF n
  <2>5. stored \o wire = Bytes(0, n)
    BY <2>2, <2>3, <2>4, SeqEqual
  <2> QED
    BY <2>5 DEF n
<1> QED
  BY <1>1, TransferInvariant, PTL

(***************************************************************************)
(* A file recv_file accepts is whole, whenever its size has an int and was *)
(* received, and no error of recv was taken for data (common.c:53-85).     *)
(***************************************************************************)
THEOREM AcceptedFilesAreWhole == TransferSpec => []AcceptedIsWhole
<1>1. IInv => AcceptedIsWhole
  <2> SUFFICES ASSUME IInv, result = "stored", ~ guessed, ~ Spoiled, size <= MaxInt
               PROVE  stored = Bytes(0, size)
    BY DEF AcceptedIsWhole
  <2>1. /\ stored \in Seq(0..size) /\ Len(stored) \in Nat /\ Len(wire) \in Nat
        /\ size \in Nat /\ sent \in 0..size
        /\ \A i \in 1..Len(stored) : stored[i] = i
        /\ Len(stored) + Len(wire) <= sent
    BY TransferAssumption DEF IInv, TransferTypeOK, FlowInv
  <2>2. Len(stored) >= size
    <3>1. total_bytes_read = Len(stored) /\ file_size = size /\ ~ More
      BY DEF IInv, CountInv
    <3>2. ToSize(size) = size
      BY <2>1, ToIntOfInt
    <3> QED
      BY <3>1, <3>2, <2>1 DEF More
  <2>3. Len(stored) = size
    BY <2>1, <2>2
  <2>4. /\ Bytes(0, size) \in Seq(0..size)
        /\ Len(Bytes(0, size)) = size
        /\ \A i \in 1..size : Bytes(0, size)[i] = i
    <3>1. 0 \in Nat /\ 0 + size <= size
      BY <2>1
    <3>2. /\ Bytes(0, size) \in Seq(0..size)
          /\ Len(Bytes(0, size)) = size
          /\ \A i \in 1..size : Bytes(0, size)[i] = 0 + i
      BY <3>1, <2>1, BytesProperties
    <3> QED
      BY <3>2, <2>1
  <2> QED
    BY <2>1, <2>3, <2>4, SeqEqual
<1> QED
  BY <1>1, TransferInvariant, PTL

=============================================================================
