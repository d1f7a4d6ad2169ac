-------------------------- MODULE MessageCacheProofs ---------------------------
(***************************************************************************)
(* For any messages and groups, any size of a batch and any number of      *)
(* crashes: the private messages in MySQL and Redis together are a log, in *)
(* which a crash may repeat a batch and nothing else goes wrong; and of no *)
(* group message a push is lost before its group's messages are deleted.   *)
(***************************************************************************)
EXTENDS MessageCache, SelectionProofs, SequenceTheorems, FiniteSetTheorems, TLAPS

\* What the proof needs of the types.
PrivateType ==
    /\ DOMAIN list = Table /\ list["messages"] \in Seq(PrivateMsg)
    /\ DOMAIN rows = Table /\ rows["messages"] \in Seq(PrivateMsg)
    /\ \/ flush \in {Idle, Between}
       \/ /\ flush = [at |-> flush.at, table |-> flush.table, batch |-> flush.batch]
          /\ flush.at \in {"read", "inserted"} /\ flush.table \in Table
          /\ flush.table = "messages" => flush.batch \in Seq(PrivateMsg)

PrivateInv == PrivateType /\ BatchStands
-----------------------------------------------------------------------------
(* Sequences. *)

\* What is left of a sequence after its head.
LEMMA Rest ==
    ASSUME NEW S, NEW l \in Seq(S), NEW n \in Nat, n <= Len(l)
    PROVE  /\ SubSeq(l, n + 1, Len(l)) \in Seq(S)
           /\ Len(SubSeq(l, n + 1, Len(l))) = Len(l) - n
           /\ \A i \in 1 .. Len(l) - n : SubSeq(l, n + 1, Len(l))[i] = l[n + i]
<1> DEFINE rest == SubSeq(l, n + 1, Len(l))
<1>1. Len(l) \in Nat /\ \A i \in n + 1 .. Len(l) : l[i] \in S
    BY LenProperties, ElementOfSeq
<1>2. /\ rest \in Seq(S)
      /\ Len(rest) = IF n + 1 <= Len(l) THEN Len(l) - (n + 1) + 1 ELSE 0
      /\ \A i \in 1 .. Len(l) - (n + 1) + 1 : rest[i] = l[n + 1 + i - 1]
    BY <1>1, SubSeqProperties
<1> HIDE DEF rest
<1>3. Len(l) - (n + 1) + 1 = Len(l) - n BY <1>1
<1>4. Len(rest) = Len(l) - n BY <1>1, <1>2
<1>5. ASSUME NEW i \in 1 .. Len(l) - n PROVE rest[i] = l[n + i]
    <2>1. n + 1 + i - 1 = n + i BY <1>1
    <2> QED BY <1>2, <1>3, <2>1
<1> QED BY <1>2, <1>4, <1>5 DEF rest

\* A batch at the head of a list.
Prefix(b, l) == Len(b) <= Len(l) /\ \A i \in 1 .. Len(b) : b[i] = l[i]

\* A list is the batch at its head and the rest.
LEMMA BatchAndRest ==
    ASSUME NEW S, NEW l \in Seq(S), NEW b \in Seq(S), Prefix(b, l)
    PROVE  b \o SubSeq(l, Len(b) + 1, Len(l)) = l
<1> DEFINE rest == SubSeq(l, Len(b) + 1, Len(l))
<1> USE DEF Prefix
<1>1. Len(b) \in Nat /\ Len(l) \in Nat BY LenProperties
<1>2. /\ rest \in Seq(S) /\ Len(rest) = Len(l) - Len(b)
      /\ \A i \in 1 .. Len(l) - Len(b) : rest[i] = l[Len(b) + i]
    BY <1>1, Rest
<1> HIDE DEF rest
<1>3. /\ b \o rest \in Seq(S) /\ Len(b \o rest) = Len(b) + Len(rest)
      /\ \A i \in 1 .. Len(b) + Len(rest) :
            (b \o rest)[i] = IF i <= Len(b) THEN b[i] ELSE rest[i - Len(b)]
    BY <1>2, ConcatProperties
<1>4. Len(b \o rest) = Len(l) BY <1>1, <1>2, <1>3
<1>5. ASSUME NEW i \in 1 .. Len(b \o rest) PROVE (b \o rest)[i] = l[i]
    <2>1. CASE i <= Len(b) BY <1>1, <1>2, <1>3, <1>4, <2>1
    <2>2. CASE ~(i <= Len(b))
        <3>1. i - Len(b) \in 1 .. Len(l) - Len(b) BY <1>1, <1>4, <2>2
        <3>2. rest[i - Len(b)] = l[Len(b) + (i - Len(b))] BY <1>2, <3>1
        <3>3. Len(b) + (i - Len(b)) = i BY <1>1
        <3> QED BY <1>1, <1>3, <1>4, <2>2, <3>2, <3>3
    <2> QED BY <2>1, <2>2
<1>6. b \o rest = l BY <1>3, <1>4, <1>5, SeqEqual
<1> QED BY <1>6 DEF rest

\* A batch at the end of the rows and its rest in the list are the rows and the list.
LEMMA InsertedIsHeld ==
    ASSUME NEW S, NEW r \in Seq(S), NEW l \in Seq(S), NEW b \in Seq(S), Prefix(b, l)
    PROVE  (r \o b) \o SubSeq(l, Len(b) + 1, Len(l)) = r \o l
<1> DEFINE rest == SubSeq(l, Len(b) + 1, Len(l))
<1>1. Len(b) \in Nat /\ Len(b) <= Len(l) BY LenProperties DEF Prefix
<1>2. rest \in Seq(S) BY <1>1, Rest
<1>3. b \o rest = l BY BatchAndRest
<1> HIDE DEF rest
<1>4. ASSUME NEW t \in Seq(S) PROVE (r \o b) \o t = r \o (b \o t)
    BY ConcatAssociative
<1>5. (r \o b) \o rest = r \o (b \o rest) BY <1>2, <1>4
<1> QED BY <1>3, <1>5 DEF rest

\* A batch at the head of the list and at the end of the rows.
Both(b, l, r) ==
    /\ Len(b) <= Len(l) /\ \A i \in 1 .. Len(b) : b[i] = l[i]
    /\ Len(b) <= Len(r) /\ \A i \in 1 .. Len(b) : b[i] = r[Len(r) - Len(b) + i]

\* A log after a stretch of it, from i to k, has been repeated.
Repeats(new, old, i, k) ==
    /\ i \in 1 .. Len(old) /\ k \in 1 .. Len(old) /\ i <= k
    /\ new = SubSeq(old, 1, k) \o SubSeq(old, i, Len(old))

\* A batch that is in both and counts twice from now on repeats a stretch of the log.
LEMMA BothIsRepeated ==
    ASSUME NEW S, NEW r \in Seq(S), NEW l \in Seq(S), NEW b \in Seq(S), b # <<>>,
           Both(b, l, r), NEW h, h = r \o SubSeq(l, Len(b) + 1, Len(l))
    PROVE  Repeats(r \o l, h, Len(r) - Len(b) + 1, Len(r))
<1> DEFINE rest == SubSeq(l, Len(b) + 1, Len(l))
           n == Len(r) - Len(b)
           again == SubSeq(h, n + 1, Len(h))
<1> USE DEF Both
<1>1. Len(b) \in Nat \ {0} /\ Len(l) \in Nat /\ Len(r) \in Nat BY LenProperties, EmptySeq
<1>2. n \in Nat /\ n + Len(b) = Len(r) BY <1>1
<1>3. /\ rest \in Seq(S) /\ Len(rest) = Len(l) - Len(b)
      /\ \A i \in 1 .. Len(l) - Len(b) : rest[i] = l[Len(b) + i]
    BY <1>1, Rest
<1>4. h = r \o rest OBVIOUS
<1> HIDE DEF rest, n
<1>5. /\ h \in Seq(S) /\ Len(h) = Len(r) + Len(rest)
      /\ \A i \in 1 .. Len(r) + Len(rest) :
            h[i] = IF i <= Len(r) THEN r[i] ELSE rest[i - Len(r)]
    <2>1. /\ r \o rest \in Seq(S) /\ Len(r \o rest) = Len(r) + Len(rest)
          /\ \A i \in 1 .. Len(r) + Len(rest) :
                (r \o rest)[i] = IF i <= Len(r) THEN r[i] ELSE rest[i - Len(r)]
        BY <1>3, ConcatProperties
    <2> QED BY ONLY <1>4, <2>1
<1>6. Len(h) \in Nat /\ Len(h) = n + Len(l) /\ n <= Len(h)
    <2> HIDE DEF Both, again
    <2>1. Len(h) = Len(r) + (Len(l) - Len(b)) BY <1>3, <1>5
    <2> QED BY ONLY <1>1, <1>2, <2>1, SMTT(30)
<1>7. SubSeq(h, 1, Len(r)) = r
    <2>1. Len(r) \in 1 .. Len(h) /\ \A i \in 1 .. Len(r) : h[i] = r[i] /\ h[i] \in S
        BY <1>1, <1>2, <1>3, <1>5, <1>6, ElementOfSeq
    <2>2. /\ SubSeq(h, 1, Len(r)) \in Seq(S)
          /\ Len(SubSeq(h, 1, Len(r))) = IF 1 <= Len(r) THEN Len(r) - 1 + 1 ELSE 0
          /\ \A i \in 1 .. Len(r) - 1 + 1 : SubSeq(h, 1, Len(r))[i] = h[1 + i - 1]
        BY <1>1, <2>1, SubSeqProperties
    <2> DEFINE head == SubSeq(h, 1, Len(r))
    <2> HIDE DEF head
    <2>3. Len(head) = Len(r) BY <1>1, <2>1, <2>2 DEF head
    <2>4. ASSUME NEW i \in 1 .. Len(head) PROVE head[i] = r[i]
        <3>1. i \in 1 .. Len(r) /\ i \in 1 .. Len(r) - 1 + 1 /\ 1 + i - 1 = i BY <1>1, <2>3
        <3>2. head[i] = h[1 + i - 1] BY <2>2, <3>1 DEF head
        <3> QED BY <2>1, <3>1, <3>2
    <2>5. head \in Seq(S) BY <2>2 DEF head
    <2>6. head = r BY <2>3, <2>4, <2>5, SeqEqual
    <2> QED BY <2>6 DEF head
<1>8. again = l
    <2>1. /\ again \in Seq(S) /\ Len(again) = Len(h) - n
          /\ \A i \in 1 .. Len(h) - n : again[i] = h[n + i]
        <3>1. h \in Seq(S) /\ n \in Nat /\ n <= Len(h) BY <1>2, <1>5, <1>6
        <3> QED BY ONLY <3>1, Rest
    <2> HIDE DEF again
    <2>2. Len(again) = Len(l) BY <1>1, <1>2, <1>6, <2>1
    <2>3. ASSUME NEW i \in 1 .. Len(again) PROVE again[i] = l[i]
        <3>1. i \in 1 .. Len(l) /\ n + i \in 1 .. Len(h) /\ again[i] = h[n + i]
            <4>1. i \in 1 .. Len(l) /\ n + i \in 1 .. Len(h) /\ i \in 1 .. Len(h) - n
                BY ONLY <1>1, <1>2, <1>6, <2>2, i \in 1 .. Len(again)
            <4>2. again[i] = h[n + i] BY ONLY <2>1, <4>1
            <4> QED BY ONLY <4>1, <4>2
        <3>2. CASE i <= Len(b)
            <4>1. n + i <= Len(r) /\ i \in 1 .. Len(b) BY <1>1, <1>2, <3>1, <3>2
            <4>2. h[n + i] = r[n + i] BY <1>5, <1>6, <3>1, <4>1
            <4>3. b[i] = l[i] /\ b[i] = r[n + i] BY <4>1 DEF n
            <4> QED BY <3>1, <4>2, <4>3
        <3>3. CASE ~(i <= Len(b))
            <4> DEFINE j == i - Len(b)
            <4>1. /\ j \in 1 .. Len(l) - Len(b) /\ Len(b) + j = i
                  /\ ~(n + i <= Len(r)) /\ n + i - Len(r) = j
                <5>1. i \in Nat /\ 1 <= i /\ i <= Len(l) BY ONLY <1>1, <3>1
                <5>2. Len(b) < i BY ONLY <1>1, <3>3, <5>1
                <5>3. j \in Nat /\ 1 <= j /\ Len(b) + j = i BY ONLY <1>1, <5>1, <5>2
                <5>4. n + i = Len(r) + j /\ j <= Len(l) - Len(b)
                    <6> HIDE DEF j, Both
                    <6> QED BY ONLY <1>1, <1>2, <5>1, <5>3, SMTT(30)
                <5> HIDE DEF j
                <5> QED BY ONLY <1>1, <1>2, <5>1, <5>3, <5>4
            <4> HIDE DEF j
            <4>2. h[n + i] = rest[j]
                <5>1. PICK q : q = n + i OBVIOUS
                <5>2. q \in 1 .. Len(r) + Len(rest) /\ ~(q <= Len(r)) /\ q - Len(r) = j
                    <6>1. q \in 1 .. Len(h) /\ ~(q <= Len(r)) /\ q - Len(r) = j
                        BY ONLY <1>1, <1>2, <1>6, <3>1, <4>1, <5>1
                    <6>2. Len(h) = Len(r) + Len(rest) BY <1>5
                    <6> QED BY ONLY <6>1, <6>2
                <5>3. h[q] = IF q <= Len(r) THEN r[q] ELSE rest[q - Len(r)]
                    BY ONLY <1>5, <5>2
                <5> QED BY <5>1, <5>2, <5>3
            <4>3. rest[j] = l[i] BY <1>3, <4>1
            <4> QED BY <3>1, <4>2, <4>3
        <3> QED BY <3>2, <3>3
    <2> QED BY <2>1, <2>2, <2>3, SeqEqual
<1>9. n + 1 \in 1 .. Len(h) /\ Len(r) \in 1 .. Len(h) /\ n + 1 <= Len(r)
    BY <1>1, <1>2, <1>3, <1>5, <1>6
<1> QED BY <1>7, <1>8, <1>9 DEF n, Repeats

\* A message at the end of a sequence is at the end of what is put before it.
LEMMA ConcatAppend ==
    ASSUME NEW S, NEW s \in Seq(S), NEW t \in Seq(S), NEW e \in S
    PROVE  s \o Append(t, e) = Append(s \o t, e)
<1>1. <<e>> \in Seq(S) OBVIOUS
<1>2. Append(t, e) = t \o <<e>> BY AppendIsConcat
<1>3. s \o t \in Seq(S) BY ConcatProperties
<1>4. Append(s \o t, e) = (s \o t) \o <<e>> BY <1>3, AppendIsConcat
<1>5. (s \o t) \o <<e>> = s \o (t \o <<e>>) BY <1>1, ConcatAssociative
<1> QED BY <1>2, <1>4, <1>5

\* ... and at the end of what is left of it.
LEMMA RestOfAppend ==
    ASSUME NEW S, NEW l \in Seq(S), NEW e \in S, NEW n \in Nat, n <= Len(l)
    PROVE  SubSeq(Append(l, e), n + 1, Len(l) + 1) = Append(SubSeq(l, n + 1, Len(l)), e)
<1> DEFINE rest == SubSeq(l, n + 1, Len(l))
           more == Append(l, e)
           left2 == SubSeq(more, n + 1, Len(l) + 1)
<1>1. Len(l) \in Nat BY LenProperties
<1>2. /\ rest \in Seq(S) /\ Len(rest) = Len(l) - n
      /\ \A i \in 1 .. Len(l) - n : rest[i] = l[n + i]
    BY Rest
<1>3. /\ more \in Seq(S) /\ Len(more) = Len(l) + 1 /\ more[Len(l) + 1] = e
      /\ \A i \in 1 .. Len(l) : more[i] = l[i]
    BY AppendProperties
<1>4. n <= Len(more) BY <1>1, <1>3
<1>5. /\ left2 \in Seq(S) /\ Len(left2) = Len(more) - n
      /\ \A i \in 1 .. Len(more) - n : left2[i] = more[n + i]
    <2> HIDE DEF more
    <2>1. left2 = SubSeq(more, n + 1, Len(more)) BY <1>3
    <2> QED BY <1>3, <1>4, <2>1, Rest
<1> HIDE DEF rest, more, left2
<1>6. /\ Append(rest, e) \in Seq(S) /\ Len(Append(rest, e)) = Len(rest) + 1
      /\ Append(rest, e)[Len(rest) + 1] = e
      /\ \A i \in 1 .. Len(rest) : Append(rest, e)[i] = rest[i]
    BY <1>2, AppendProperties
<1>7. Len(left2) = Len(Append(rest, e)) BY <1>1, <1>2, <1>3, <1>5, <1>6
<1>8. ASSUME NEW i \in 1 .. Len(left2) PROVE left2[i] = Append(rest, e)[i]
    <2>1. i \in 1 .. Len(more) - n /\ left2[i] = more[n + i] BY <1>5
    <2>2. CASE i <= Len(l) - n
        <3>1. i \in 1 .. Len(l) - n /\ n + i \in 1 .. Len(l) BY <1>1, <2>1, <2>2
        <3>2. i \in 1 .. Len(rest) BY <1>2, <3>1
        <3> QED BY <1>2, <1>3, <1>6, <2>1, <3>1, <3>2
    <2>3. CASE ~(i <= Len(l) - n)
        <3>1. n + i = Len(l) + 1 /\ i = Len(rest) + 1 BY <1>1, <1>2, <1>3, <2>1, <2>3
        <3> QED BY <1>3, <1>6, <2>1, <3>1
    <2> QED BY <2>2, <2>3
<1>9. left2 = Append(rest, e) BY <1>5, <1>6, <1>7, <1>8, SeqEqual
<1> QED BY <1>9 DEF rest, more, left2
-----------------------------------------------------------------------------
(* The steps. *)

\* What a step adds to the log, if it does.
LogStep == Log' = Log \/ PrivateHistory!HNext

\* The log when no batch is in both places, and when one is.
LEMMA LogNow ==
    IF flush.at = "inserted" /\ flush.table = "messages"
    THEN Log = rows["messages"]
                 \o SubSeq(list["messages"], Len(flush.batch) + 1, Len(list["messages"]))
    ELSE Log = rows["messages"] \o list["messages"]
BY DEF Log

LEMMA LogThen ==
    IF flush'.at = "inserted" /\ flush'.table = "messages"
    THEN Log' = rows'["messages"]
                  \o SubSeq(list'["messages"], Len(flush'.batch) + 1, Len(list'["messages"]))
    ELSE Log' = rows'["messages"] \o list'["messages"]
BY DEF Log

LEMMA NotStored ==
    ASSUME flush' \in {Idle, Between} PROVE Log' = rows'["messages"] \o list'["messages"]
<1>1. flush'.at # "inserted" BY DEF Idle, Between
<1> QED BY <1>1, LogThen

LEMMA Initially == Init => PrivateInv /\ Log = <<>>
<1> SUFFICES ASSUME Init PROVE PrivateInv /\ Log = <<>> OBVIOUS
<1>1. /\ list["messages"] = <<>> /\ rows["messages"] = <<>> /\ flush = Idle
      /\ DOMAIN list = Table /\ DOMAIN rows = Table
    BY DEF Init, Table
<1>2. PrivateType BY <1>1, EmptySeq DEF PrivateType
<1>3. BatchStands BY <1>1 DEF BatchStands, Idle
<1>4. Log = <<>> \o <<>> BY <1>1 DEF Log, Idle
<1>5. <<>> \o <<>> = <<>> BY EmptySeq, ConcatEmptySeq
<1> QED BY <1>2, <1>3, <1>4, <1>5 DEF PrivateInv

\* A step that leaves the private messages and the batch where they are.
LEMMA Elsewhere ==
    ASSUME PrivateInv, UNCHANGED flush,
           DOMAIN list' = Table, list'["messages"] = list["messages"],
           DOMAIN rows' = Table, rows'["messages"] = rows["messages"]
    PROVE  PrivateInv' /\ LogStep
BY DEF PrivateInv, PrivateType, BatchStands, Log, LogStep

\* A private message is pushed to its list, behind the batch that is being stored.
LEMMA PushKeeps ==
    ASSUME PrivateInv, NEW m \in Msg, Push(m) PROVE PrivateInv' /\ LogStep
<1> USE DEF PrivateInv
<1>1. CASE m \notin PrivateMsg
    BY <1>1, Elsewhere DEF Push, TableOf, PrivateType, Table
<1>2. CASE m \in PrivateMsg
    <2> DEFINE l == list["messages"]
               r == rows["messages"]
    <2>1. /\ l \in Seq(PrivateMsg) /\ r \in Seq(PrivateMsg) /\ Len(l) \in Nat
        BY LenProperties DEF PrivateType
    <2>2. /\ list'["messages"] = Append(l, m) /\ DOMAIN list' = Table
          /\ rows' = rows /\ flush' = flush
        BY <1>2 DEF Push, TableOf, PrivateType, Table
    <2>3. /\ Append(l, m) \in Seq(PrivateMsg) /\ Len(Append(l, m)) = Len(l) + 1
          /\ \A i \in 1 .. Len(l) : Append(l, m)[i] = l[i]
        BY <1>2, <2>1, AppendProperties
    <2>4. PrivateType' BY <2>2, <2>3 DEF PrivateType
    <2> HIDE DEF l, r
    <2>5. BatchStands'
        <3> SUFFICES ASSUME flush.at \in {"read", "inserted"}, flush.table = "messages"
                     PROVE  /\ Len(flush.batch) <= Len(Append(l, m))
                            /\ \A i \in 1 .. Len(flush.batch) : flush.batch[i] = Append(l, m)[i]
                            /\ flush.at = "inserted" =>
                                  /\ Len(flush.batch) <= Len(r)
                                  /\ \A i \in 1 .. Len(flush.batch) :
                                        flush.batch[i] = r[Len(r) - Len(flush.batch) + i]
            BY <2>2 DEF BatchStands, l, r
        <3>1. flush.batch \in Seq(PrivateMsg) BY DEF PrivateType, Idle, Between
        <3>2. Len(flush.batch) \in Nat BY <3>1, LenProperties
        <3>3. /\ Len(flush.batch) <= Len(l)
              /\ \A i \in 1 .. Len(flush.batch) : flush.batch[i] = l[i]
              /\ flush.at = "inserted" =>
                    /\ Len(flush.batch) <= Len(r)
                    /\ \A i \in 1 .. Len(flush.batch) :
                          flush.batch[i] = r[Len(r) - Len(flush.batch) + i]
            BY DEF BatchStands, l, r
        <3>4. ASSUME NEW i \in 1 .. Len(flush.batch)
              PROVE  flush.batch[i] = Append(l, m)[i]
            <4>1. i \in 1 .. Len(l) BY <2>1, <3>2, <3>3
            <4> QED BY <2>3, <3>3, <4>1
        <3>5. Len(flush.batch) <= Len(Append(l, m)) BY <2>1, <2>3, <3>2, <3>3
        <3> QED BY <3>3, <3>4, <3>5
    <2>6. Log' = Append(Log, m)
        <3>1. CASE flush.at = "inserted" /\ flush.table = "messages"
            <4> DEFINE n == Len(flush.batch)
                       rest == SubSeq(l, n + 1, Len(l))
            <4>1. flush.batch \in Seq(PrivateMsg) BY <3>1 DEF PrivateType, Idle, Between
            <4>2. n \in Nat /\ n <= Len(l) BY <3>1, <4>1, LenProperties DEF BatchStands, l
            <4>3. Log = r \o rest /\ Log' = r \o SubSeq(Append(l, m), n + 1, Len(l) + 1)
                BY <2>2, <2>3, <3>1 DEF Log, l, r
            <4> HIDE DEF n
            <4>4. SubSeq(Append(l, m), n + 1, Len(l) + 1) = Append(rest, m)
                BY <1>2, <2>1, <4>2, RestOfAppend
            <4>5. rest \in Seq(PrivateMsg) BY <2>1, <4>2, Rest
            <4> HIDE DEF rest
            <4>6. r \o Append(rest, m) = Append(r \o rest, m)
                BY <1>2, <2>1, <4>5, ConcatAppend
            <4> QED BY <4>3, <4>4, <4>6
        <3>2. CASE ~(flush.at = "inserted" /\ flush.table = "messages")
            <4>1. Log = r \o l /\ Log' = r \o Append(l, m) BY <2>2, <3>2 DEF Log, l, r
            <4> QED BY <1>2, <2>1, <4>1, ConcatAppend
        <3> QED BY <3>1, <3>2
    <2>7. PrivateHistory!HNext BY <1>2, <2>6 DEF PrivateHistory!HNext, PrivateHistory!Add
    <2> QED BY <2>4, <2>5, <2>7 DEF LogStep
<1> QED BY <1>1, <1>2

\* lrange returns a head of the list.
LEMMA Batches ==
    ASSUME NEW S, NEW l \in Seq(S)
    PROVE  LET b == FirstEntries(l, BatchLimit) IN
           b \in Seq(S) /\ Len(b) <= Len(l) /\ \A i \in 1 .. Len(b) : b[i] = l[i]
<1>1. Len(l) \in Nat /\ BatchLimit \in Nat \ {0} BY LenProperties, CountAssumption
<1>2. CASE Len(l) <= BatchLimit BY <1>1, <1>2 DEF FirstEntries
<1>3. CASE ~(Len(l) <= BatchLimit)
    <2> DEFINE b == SubSeq(l, 1, BatchLimit)
    <2>1. \A i \in 1 .. BatchLimit : l[i] \in S BY <1>1, <1>3, ElementOfSeq
    <2>2. /\ b \in Seq(S)
          /\ Len(b) = IF 1 <= BatchLimit THEN BatchLimit - 1 + 1 ELSE 0
          /\ \A i \in 1 .. BatchLimit - 1 + 1 : b[i] = l[1 + i - 1]
        BY <1>1, <2>1, SubSeqProperties
    <2>3. FirstEntries(l, BatchLimit) = b BY <1>3 DEF FirstEntries
    <2> HIDE DEF b
    <2>4. Len(b) = BatchLimit BY <1>1, <2>2
    <2>5. ASSUME NEW i \in 1 .. Len(b) PROVE b[i] = l[i]
        <3>1. i \in 1 .. BatchLimit - 1 + 1 /\ 1 + i - 1 = i BY <1>1, <2>4
        <3> QED BY <2>2, <3>1
    <2> QED BY <1>1, <1>3, <2>2, <2>3, <2>4, <2>5
<1> QED BY <1>2, <1>3

LEMMA ReadKeeps ==
    ASSUME PrivateInv, ReadList PROVE PrivateInv' /\ LogStep
<1> USE DEF PrivateInv
<1>1. PICK t \in Table :
          /\ flush.at \in {"idle", "next"}
          /\ flush' = [at |-> "read", table |-> t, batch |-> FirstEntries(list[t], BatchLimit)]
          /\ list' = list /\ rows' = rows
    BY DEF ReadList, Read, Table
<1>2. list["messages"] \in Seq(PrivateMsg) BY DEF PrivateType
<1>3. LET b == FirstEntries(list["messages"], BatchLimit) IN
          /\ b \in Seq(PrivateMsg) /\ Len(b) <= Len(list["messages"])
          /\ \A i \in 1 .. Len(b) : b[i] = list["messages"][i]
    BY <1>2, Batches
<1>4. PrivateType' BY <1>1, <1>3 DEF PrivateType
<1>5. BatchStands' BY <1>1, <1>3 DEF BatchStands
<1>6. Log' = Log BY <1>1 DEF Log
<1> QED BY <1>4, <1>5, <1>6 DEF LogStep

\* What a batch at the head of a list needs to be one at the end of the rows.
LEMMA Appended ==
    ASSUME NEW S, NEW r \in Seq(S), NEW b \in Seq(S)
    PROVE  /\ r \o b \in Seq(S) /\ Len(b) <= Len(r \o b)
           /\ \A i \in 1 .. Len(b) : b[i] = (r \o b)[Len(r \o b) - Len(b) + i]
<1>1. Len(r) \in Nat /\ Len(b) \in Nat BY LenProperties
<1>2. /\ r \o b \in Seq(S) /\ Len(r \o b) = Len(r) + Len(b)
      /\ \A i \in 1 .. Len(r) + Len(b) :
            (r \o b)[i] = IF i <= Len(r) THEN r[i] ELSE b[i - Len(r)]
    BY ConcatProperties
<1>3. ASSUME NEW i \in 1 .. Len(b)
      PROVE  b[i] = (r \o b)[Len(r \o b) - Len(b) + i]
    <2>1. Len(r \o b) - Len(b) + i = Len(r) + i BY <1>1, <1>2
    <2>2. /\ Len(r) + i \in 1 .. Len(r) + Len(b) /\ ~(Len(r) + i <= Len(r))
          /\ Len(r) + i - Len(r) = i
        BY <1>1
    <2>3. (r \o b)[Len(r) + i] = b[i] BY <1>2, <2>2
    <2> QED BY <2>1, <2>3
<1> QED BY <1>1, <1>2, <1>3

LEMMA InsertKeeps ==
    ASSUME PrivateInv, Insert PROVE PrivateInv' /\ LogStep
<1> USE DEF PrivateInv
<1>1. /\ flush = [at |-> "read", table |-> flush.table, batch |-> flush.batch]
      /\ flush' = [at |-> "inserted", table |-> flush.table, batch |-> flush.batch]
      /\ list' = list /\ flush.table \in Table
      /\ rows' = [rows EXCEPT ![flush.table] = @ \o flush.batch]
    BY DEF Insert, PrivateType, Idle, Between
<1>2. CASE flush.table # "messages"
    <2>1. rows'["messages"] = rows["messages"] /\ DOMAIN rows' = Table
        BY <1>1, <1>2 DEF PrivateType
    <2>2. PrivateType' BY <1>1, <1>2, <2>1 DEF PrivateType
    <2>3. BatchStands' BY <1>1, <1>2 DEF BatchStands
    <2>4. Log' = Log BY <1>1, <1>2, <2>1 DEF Log
    <2> QED BY <2>2, <2>3, <2>4 DEF LogStep
<1>3. CASE flush.table = "messages"
    <2> DEFINE b == flush.batch
               l == list["messages"]
               r == rows["messages"]
    <2>1. /\ b \in Seq(PrivateMsg) /\ l \in Seq(PrivateMsg) /\ r \in Seq(PrivateMsg)
          /\ Len(b) <= Len(l) /\ \A i \in 1 .. Len(b) : b[i] = l[i]
        BY <1>1, <1>3 DEF PrivateType, BatchStands, Idle, Between
    <2>2. rows'["messages"] = r \o b /\ DOMAIN rows' = Table
        BY <1>1, <1>3 DEF PrivateType
    <2> HIDE DEF b, l, r
    <2>3. /\ r \o b \in Seq(PrivateMsg) /\ Len(b) <= Len(r \o b)
          /\ \A i \in 1 .. Len(b) : b[i] = (r \o b)[Len(r \o b) - Len(b) + i]
        BY <2>1, Appended
    <2>4. PrivateType' BY <1>1, <2>1, <2>2, <2>3 DEF PrivateType, b, l, r
    <2>5. BatchStands' BY <1>1, <2>1, <2>2, <2>3 DEF BatchStands, b, l, r
    <2>6. (r \o b) \o SubSeq(l, Len(b) + 1, Len(l)) = r \o l
        BY <2>1, InsertedIsHeld DEF Prefix
    <2>7. Log = r \o l
        <3>1. flush.at # "inserted" BY <1>1
        <3> QED BY <3>1, LogNow DEF l, r
    <2>8. flush'.at = "inserted" /\ flush'.table = "messages" /\ flush'.batch = b
        BY <1>1, <1>3 DEF b
    <2>9. Log' = (r \o b) \o SubSeq(l, Len(b) + 1, Len(l))
        BY <1>1, <2>2, <2>8, LogThen DEF l
    <2>10. Log' = Log BY <2>6, <2>7, <2>9
    <2> QED BY <2>4, <2>5, <2>10 DEF LogStep
<1> QED BY <1>2, <1>3

\* The batch is given up, or what has been stored leaves the list.
LEMMA ProceedLeaves ==
    ASSUME Proceed PROVE flush' \in {Idle, Between}
BY DEF Proceed

LEMMA TrimKeeps ==
    ASSUME PrivateInv, Trim PROVE PrivateInv' /\ LogStep
<1> USE DEF PrivateInv
<1>1. /\ flush = [at |-> "inserted", table |-> flush.table, batch |-> flush.batch]
      /\ flush' \in {Idle, Between} /\ rows' = rows /\ flush.table \in Table
      /\ list' = [list EXCEPT ![flush.table] = SubSeq(@, Len(flush.batch) + 1, Len(@))]
    BY ProceedLeaves DEF Trim, PrivateType, Idle, Between
<1>2. BatchStands' BY <1>1 DEF BatchStands, Idle, Between
<1>3. CASE flush.table # "messages"
    <2>1. list'["messages"] = list["messages"] /\ DOMAIN list' = Table
        BY <1>1, <1>3 DEF PrivateType
    <2>2. PrivateType' BY <1>1, <2>1 DEF PrivateType
    <2>3. Log' = Log BY <1>1, <1>3, <2>1, LogNow, NotStored
    <2> QED BY <1>2, <2>2, <2>3 DEF LogStep
<1>4. CASE flush.table = "messages"
    <2> DEFINE b == flush.batch
               l == list["messages"]
    <2>1. b \in Seq(PrivateMsg) /\ l \in Seq(PrivateMsg) /\ Len(b) <= Len(l)
        BY <1>1, <1>4 DEF PrivateType, BatchStands, Idle, Between
    <2>2. list'["messages"] = SubSeq(l, Len(b) + 1, Len(l)) /\ DOMAIN list' = Table
        BY <1>1, <1>4 DEF PrivateType
    <2>3. SubSeq(l, Len(b) + 1, Len(l)) \in Seq(PrivateMsg)
        <3>1. Len(b) \in Nat BY <2>1, LenProperties
        <3> QED BY <2>1, <3>1, Rest
    <2>4. PrivateType' BY <1>1, <2>2, <2>3 DEF PrivateType
    <2>5. Log' = rows["messages"] \o SubSeq(l, Len(b) + 1, Len(l))
        BY <1>1, <2>2, NotStored
    <2>6. flush.at = "inserted" BY <1>1
    <2>7. Log' = Log BY <1>4, <2>5, <2>6, LogNow
    <2> QED BY <1>2, <2>4, <2>7 DEF LogStep
<1> QED BY <1>3, <1>4

\* Whatever gives up the batch: a failure before it was inserted is a stutter, a crash
\* after it repeats it.
LEMMA GivenUp ==
    ASSUME PrivateInv, flush' \in {Idle, Between}, list' = list, rows' = rows
    PROVE  PrivateInv' /\ LogStep
<1> USE DEF PrivateInv
<1> DEFINE b == flush.batch
           l == list["messages"]
           r == rows["messages"]
<1>1. PrivateInv' BY DEF PrivateType, BatchStands, Idle, Between
<1>2. Log' = r \o l BY NotStored
<1>3. CASE ~(flush.at = "inserted" /\ flush.table = "messages")
    BY <1>1, <1>2, <1>3, LogNow DEF LogStep
<1>4. CASE flush.at = "inserted" /\ flush.table = "messages"
    <2>1. /\ b \in Seq(PrivateMsg) /\ l \in Seq(PrivateMsg) /\ r \in Seq(PrivateMsg)
          /\ Len(b) <= Len(l) /\ \A i \in 1 .. Len(b) : b[i] = l[i]
          /\ Len(b) <= Len(r) /\ \A i \in 1 .. Len(b) : b[i] = r[Len(r) - Len(b) + i]
        BY <1>4 DEF PrivateType, BatchStands, Idle, Between
    <2>2. Log = r \o SubSeq(l, Len(b) + 1, Len(l)) BY <1>4, LogNow
    <2>3. CASE b = <<>>
        <3> HIDE DEF b, l, r
        <3>1. Len(b) + 1 = 1 BY <2>3
        <3>2. SubSeq(l, Len(b) + 1, Len(l)) = l BY <2>1, <3>1, SubSeqFull
        <3> QED BY <1>1, <1>2, <2>2, <3>2 DEF LogStep
    <2>4. CASE b # <<>>
        <3> HIDE DEF b, l, r
        <3>1. Repeats(Log', Log, Len(r) - Len(b) + 1, Len(r))
            <4>1. PICK h : h = Log OBVIOUS
            <4>2. h = r \o SubSeq(l, Len(b) + 1, Len(l)) BY <2>2, <4>1
            <4>3. Both(b, l, r) BY <2>1 DEF Both
            <4>4. Repeats(r \o l, h, Len(r) - Len(b) + 1, Len(r))
                BY ONLY <2>1, <2>4, <4>2, <4>3, BothIsRepeated
            <4> QED BY <1>2, <4>1, <4>4
        <3>2. PrivateHistory!HNext
            BY <3>1 DEF Repeats, PrivateHistory!HNext, PrivateHistory!Repeat
        <3> QED BY <1>1, <3>2 DEF LogStep
    <2> QED BY <2>3, <2>4
<1> QED BY <1>3, <1>4

LEMMA DissolveMessagesKeeps ==
    ASSUME PrivateInv, NEW g \in Group, DissolveMessages(g) PROVE PrivateInv' /\ LogStep
<1>1. \E s : rows' = [rows EXCEPT !["group_messages"] = s] BY Zenon DEF DissolveMessages
<1>2. /\ DOMAIN rows' = Table /\ rows'["messages"] = rows["messages"]
      /\ list' = list /\ flush' = flush
    <2>1. list' = list /\ flush' = flush BY Zenon DEF DissolveMessages
    <2> QED BY <1>1, <2>1 DEF PrivateInv, PrivateType, Table
<1> QED BY <1>2, Elsewhere DEF PrivateInv, PrivateType

LEMMA Steps == PrivateInv /\ [Next]_vars => PrivateInv' /\ LogStep
<1> SUFFICES ASSUME PrivateInv, [Next]_vars PROVE PrivateInv' /\ LogStep OBVIOUS
<1>1. ASSUME UNCHANGED <<list, rows, flush>> PROVE PrivateInv' /\ LogStep
    BY <1>1, Elsewhere DEF PrivateInv, PrivateType
<1>2. ASSUME NEW m \in Msg, ChatAccept(m) \/ GroupAccept(m) PROVE PrivateInv' /\ LogStep
    BY <1>1, <1>2 DEF ChatAccept, GroupAccept
<1>3. ASSUME NEW m \in Msg, Push(m) PROVE PrivateInv' /\ LogStep BY <1>3, PushKeeps
<1>4. ASSUME InsertFails \/ Crash PROVE PrivateInv' /\ LogStep
    BY <1>4, GivenUp, ProceedLeaves DEF InsertFails, Crash
<1>5. ASSUME FlushStep PROVE PrivateInv' /\ LogStep
    BY <1>4, <1>5, ReadKeeps, InsertKeeps, TrimKeeps DEF FlushStep
<1>6. ASSUME NEW g \in Group,
             DissolveCache(g) \/ DissolveMembers(g) \/ DissolveGroup(g) \/ FillGroup(g)
      PROVE  PrivateInv' /\ LogStep
    BY <1>1, <1>6 DEF DissolveCache, DissolveMembers, DissolveGroup, FillGroup
<1>7. ASSUME NEW g \in Group, DissolveMessages(g) PROVE PrivateInv' /\ LogStep
    BY <1>7, DissolveMessagesKeeps
<1>8. ASSUME Restart \/ SelectMembers \/ UNCHANGED vars \/ \E u \in User : DeleteUser(u)
      PROVE  PrivateInv' /\ LogStep
    BY <1>1, <1>8 DEF Restart, SelectMembers, DeleteUser, vars
<1> QED BY <1>2, <1>3, <1>4, <1>5, <1>6, <1>7, <1>8 DEF Next

\* To whoever reads MySQL and Redis together the private messages are a log in the order
\* of the pushes, whatever fails, is pushed meanwhile or dies between INSERT and ltrim;
\* a crash repeats at most a stretch of it.
THEOREM CacheIsHistory == Spec => ImplementsHistory
<1>1. Init => PrivateInv /\ PrivateHistory!HInit BY Initially DEF PrivateHistory!HInit
<1>2. PrivateInv /\ [Next]_vars => PrivateInv' /\ [PrivateHistory!HNext]_Log
    BY Steps DEF LogStep
<1> QED BY <1>1, <1>2, PTL DEF Spec, ImplementsHistory, PrivateHistory!HSpec
-----------------------------------------------------------------------------
(* How often a message is in a sequence. *)

\* The places of a message in a sequence.
Places(m, s) == {i \in 1 .. Len(s) : s[i] = m}

LEMMA TimesPlaces ==
    ASSUME NEW S, NEW s \in Seq(S), NEW m
    PROVE  /\ Times(m, s) = Cardinality(Places(m, s)) /\ Times(m, s) \in Nat
           /\ IsFiniteSet(Places(m, s)) /\ Places(m, s) \subseteq 1 .. Len(s)
<1>1. Len(s) \in Nat /\ DOMAIN s = 1 .. Len(s) BY LenProperties
<1>2. IsFiniteSet(1 .. Len(s)) BY <1>1, FS_Interval
<1>3. Places(m, s) \in SUBSET (1 .. Len(s)) BY DEF Places
<1>4. IsFiniteSet(Places(m, s)) BY <1>2, <1>3, FS_Subset
<1>5. Cardinality(Places(m, s)) \in Nat BY <1>4, FS_CardinalityType
<1>6. Times(m, s) = Cardinality(Places(m, s)) BY <1>1 DEF Times, Places
<1> QED BY <1>3, <1>4, <1>5, <1>6

\* Behind a sequence the places of another one are moved by its length.
LEMMA PlacesOfConcat ==
    ASSUME NEW S, NEW s \in Seq(S), NEW b \in Seq(S), NEW m
    PROVE  \E moved : /\ Places(m, s \o b) = Places(m, s) \cup moved
                      /\ Places(m, s) \cap moved = {}
                      /\ ExistsBijection(Places(m, b), moved)
<1> DEFINE moved == {i \in Places(m, s \o b) : Len(s) < i}
           f == [i \in Places(m, b) |-> Len(s) + i]
<1>1. Len(s) \in Nat /\ Len(b) \in Nat BY LenProperties
<1>2. /\ Len(s \o b) = Len(s) + Len(b)
      /\ \A i \in 1 .. Len(s) + Len(b) :
            (s \o b)[i] = IF i <= Len(s) THEN s[i] ELSE b[i - Len(s)]
    BY ConcatProperties
<1>3. ASSUME NEW i \in Places(m, s)
      PROVE  i \in 1 .. Len(s) /\ i \in Places(m, s \o b)
    BY <1>1, <1>2 DEF Places
<1>4. ASSUME NEW i \in Places(m, s \o b), ~(Len(s) < i)
      PROVE  i \in Places(m, s)
    BY <1>1, <1>2, <1>4 DEF Places
<1>5. Places(m, s \o b) = Places(m, s) \cup moved BY <1>3, <1>4
<1>6. Places(m, s) \cap moved = {} BY <1>1, <1>3
<1>7. ASSUME NEW i \in Places(m, b) PROVE f[i] \in moved
    <2>1. i \in 1 .. Len(b) /\ b[i] = m /\ f[i] = Len(s) + i BY DEF Places
    <2>2. /\ Len(s) + i \in 1 .. Len(s) + Len(b) /\ Len(s) < Len(s) + i
          /\ Len(s) + i - Len(s) = i
        BY <1>1, <2>1
    <2>3. (s \o b)[Len(s) + i] = b[i] BY <1>1, <1>2, <2>1, <2>2
    <2> QED BY <1>2, <2>1, <2>2, <2>3 DEF Places
<1>8. ASSUME NEW k \in moved PROVE \E i \in Places(m, b) : f[i] = k
    <2>1. k \in 1 .. Len(s) + Len(b) /\ (s \o b)[k] = m /\ Len(s) < k
        BY <1>2 DEF Places
    <2>2. k - Len(s) \in 1 .. Len(b) /\ Len(s) + (k - Len(s)) = k BY <1>1, <2>1
    <2>3. b[k - Len(s)] = m BY <1>1, <1>2, <2>1
    <2>4. k - Len(s) \in Places(m, b) BY <2>2, <2>3 DEF Places
    <2> QED BY <2>2, <2>4
<1>9. ASSUME NEW i \in Places(m, b), NEW k \in Places(m, b), f[i] = f[k] PROVE i = k
    BY <1>1, <1>9 DEF Places
<1>10. f \in Bijection(Places(m, b), moved)
    <2>1. f \in [Places(m, b) -> moved] BY <1>7
    <2> HIDE DEF f, moved
    <2>2. f \in Injection(Places(m, b), moved) BY <1>9, <2>1 DEF Injection, IsInjective
    <2>3. f \in Surjection(Places(m, b), moved) BY <1>8, <2>1 DEF Surjection
    <2> QED BY <2>2, <2>3 DEF Bijection
<1>11. ExistsBijection(Places(m, b), moved) BY <1>10 DEF ExistsBijection
<1> QED BY <1>5, <1>6, <1>11

LEMMA TimesOfConcat ==
    ASSUME NEW S, NEW s \in Seq(S), NEW b \in Seq(S), NEW m
    PROVE  Times(m, s \o b) = Times(m, s) + Times(m, b)
<1>1. PICK moved : /\ Places(m, s \o b) = Places(m, s) \cup moved
                   /\ Places(m, s) \cap moved = {}
                   /\ ExistsBijection(Places(m, b), moved)
    BY PlacesOfConcat
<1>2. s \o b \in Seq(S) BY ConcatProperties
<1>3. IsFiniteSet(Places(m, s)) /\ IsFiniteSet(Places(m, b)) BY TimesPlaces
<1>4. IsFiniteSet(moved) /\ Cardinality(moved) = Cardinality(Places(m, b))
    BY <1>1, <1>3, FS_Bijection
<1>5. Cardinality(Places(m, s) \cup moved)
          = Cardinality(Places(m, s)) + Cardinality(moved) - Cardinality({})
    BY <1>1, <1>3, <1>4, FS_Union
<1>6. Cardinality({}) = 0 BY FS_EmptySet
<1>7. Times(m, s \o b) = Cardinality(Places(m, s \o b)) BY <1>2, TimesPlaces
<1>8. /\ Times(m, s) = Cardinality(Places(m, s)) /\ Times(m, s) \in Nat
      /\ Times(m, b) = Cardinality(Places(m, b)) /\ Times(m, b) \in Nat
    BY TimesPlaces
<1> QED BY <1>1, <1>4, <1>5, <1>6, <1>7, <1>8

\* A message is in a sequence once more when it has been put at its end.
LEMMA TimesOfAppend ==
    ASSUME NEW S, NEW s \in Seq(S), NEW e \in S, NEW m
    PROVE  Times(m, Append(s, e)) = Times(m, s) + IF e = m THEN 1 ELSE 0
<1>1. <<e>> \in Seq(S) /\ Len(<<e>>) = 1 /\ <<e>>[1] = e OBVIOUS
<1>2. Append(s, e) = s \o <<e>> BY AppendIsConcat
<1>3. Times(m, s \o <<e>>) = Times(m, s) + Times(m, <<e>>) BY <1>1, TimesOfConcat
<1>4. Times(m, <<e>>) = Cardinality(Places(m, <<e>>)) BY <1>1, TimesPlaces
<1>5. Places(m, <<e>>) = IF e = m THEN {1} ELSE {} BY <1>1 DEF Places
<1>6. Cardinality({1}) = 1 /\ Cardinality({}) = 0 BY FS_Singleton, FS_EmptySet
<1> QED BY <1>2, <1>3, <1>4, <1>5, <1>6

\* A message of a list is in the batch at its head or in the rest.
LEMMA TimesOfRest ==
    ASSUME NEW S, NEW l \in Seq(S), NEW b \in Seq(S), Prefix(b, l), NEW m
    PROVE  Times(m, l) = Times(m, b) + Times(m, SubSeq(l, Len(b) + 1, Len(l)))
<1>1. Len(b) \in Nat /\ Len(b) <= Len(l) BY LenProperties DEF Prefix
<1>2. SubSeq(l, Len(b) + 1, Len(l)) \in Seq(S) BY <1>1, Rest
<1>3. b \o SubSeq(l, Len(b) + 1, Len(l)) = l BY BatchAndRest
<1> QED BY <1>2, <1>3, TimesOfConcat

\* A DELETE of a group's messages leaves every other message as often as it was.
LEMMA OthersStay ==
    ASSUME NEW S, NEW s \in Seq(S), NEW g
    PROVE  /\ Without(s, g) \in Seq(S)
           /\ \A m : GroupOf[m] # g => Times(m, Without(s, g)) = Times(m, s)
<1> DEFINE K == {i \in DOMAIN s : GroupOf[s[i]] # g}
           w == Selected(s, K)
<1>1. DOMAIN s = 1 .. Len(s) BY LenProperties
<1>2. K \in SUBSET DOMAIN s OBVIOUS
<1>3. Without(s, g) = w BY DEF Without
<1>4. \A m, i : i \in Places(m, s) /\ GroupOf[m] # g => i \in K BY <1>1 DEF Places
<1> HIDE DEF K
<1>5. /\ w \in Seq(S) /\ Len(w) = Cardinality(K) /\ IsFiniteSet(K) /\ K \in SUBSET Nat
    BY <1>2, SelectedIsSequence
<1>6. /\ \A i \in K : Rank(K, i) \in 1 .. Cardinality(K) /\ w[Rank(K, i)] = s[i]
      /\ \A k \in 1 .. Cardinality(K) : \E i \in K : Rank(K, i) = k /\ w[k] = s[i]
      /\ \A i, j \in K : Rank(K, i) = Rank(K, j) => i = j
    BY <1>5, EntryOfRank
<1> HIDE DEF w
<1>7. ASSUME NEW m, GroupOf[m] # g PROVE Times(m, w) = Times(m, s)
    <2> DEFINE A == Places(m, s)
               B == Places(m, w)
               f == [i \in A |-> Rank(K, i)]
    <2>1. \A i \in A : i \in K /\ s[i] = m BY <1>4, <1>7 DEF Places
    <2>2. ASSUME NEW i \in A PROVE f[i] \in B
        BY <1>5, <1>6, <2>1 DEF Places
    <2>3. ASSUME NEW k \in B PROVE \E i \in A : f[i] = k
        <3>1. k \in 1 .. Cardinality(K) /\ w[k] = m BY <1>5 DEF Places
        <3>2. PICK i \in K : Rank(K, i) = k /\ w[k] = s[i] BY <1>6, <3>1
        <3>3. i \in A BY <1>1, <1>2, <3>1, <3>2 DEF Places
        <3> QED BY <3>2, <3>3
    <2>4. ASSUME NEW i \in A, NEW j \in A, f[i] = f[j] PROVE i = j BY <1>6, <2>1, <2>4
    <2>5. f \in [A -> B] BY <2>2
    <2> HIDE DEF f, A, B
    <2>6. f \in Injection(A, B) BY <2>4, <2>5 DEF Injection, IsInjective
    <2>7. f \in Surjection(A, B) BY <2>3, <2>5 DEF Surjection
    <2>8. ExistsBijection(A, B) BY <2>6, <2>7 DEF Bijection, ExistsBijection
    <2>9. IsFiniteSet(A) BY TimesPlaces DEF A
    <2>10. Cardinality(B) = Cardinality(A) BY <2>8, <2>9, FS_Bijection
    <2>11. Times(m, w) = Cardinality(B) BY <1>5, TimesPlaces DEF B
    <2>12. Times(m, s) = Cardinality(A) BY TimesPlaces DEF A
    <2> QED BY <2>10, <2>11, <2>12
<1> QED BY <1>3, <1>5, <1>7
-----------------------------------------------------------------------------
(* Group messages. *)

\* A task that has not finished has something left to push.
LeftToPush == \A m \in Msg : task[m] = "pushing" => left[m] \in 1 .. MemberCount

\* The batch of either list is still at its head.
HeadOfList ==
    flush.at \in {"read", "inserted"} => Prefix(flush.batch, list[flush.table])

\* What waits for MySQL: not what has just been stored, as a trim will remove it.
Pending ==
    LET l == list["group_messages"] IN
    IF flush.at = "inserted" /\ flush.table = "group_messages"
    THEN SubSeq(l, Len(flush.batch) + 1, Len(l))
    ELSE l

Held(m) == Times(m, Pending) + Times(m, rows["group_messages"])

\* GroupExiter has not deleted the messages of the group.
Early(m) == dissolve[GroupOf[m]] \in {"no", "cache", "members"}

\* KeptUnlessDissolved without counting a batch twice that is in both places: that is
\* what a trim leaves.
KeptOnce == \A m \in GroupMsg : Early(m) => Pushed(m) <= Held(m)

KeptInv == TypeOK /\ LeftToPush /\ HeadOfList /\ KeptOnce

Shape ==
    /\ task \in [Msg -> {"unsent", "refused", "pushing", "over"}]
    /\ left \in [Msg -> 0 .. MemberCount]
    /\ list \in [Table -> Seq(Msg)] /\ rows \in [Table -> Seq(Msg)]
    /\ dissolve \in [Group -> {"no", "cache", "members", "messages", "over", "cut"}]
    /\ \/ flush \in {Idle, Between} /\ flush.at \notin {"read", "inserted"}
       \/ /\ flush = [at |-> flush.at, table |-> flush.table, batch |-> flush.batch]
          /\ flush.at \in {"read", "inserted"}
          /\ flush.table \in Table /\ flush.batch \in Seq(Msg)

LEMMA ShapeOfType == TypeOK => Shape
BY DEF TypeOK, Shape, Idle, Between

PendingTyped ==
    /\ Pending \in Seq(Msg)
    /\ \A m \in GroupMsg : Held(m) \in Nat /\ Pushed(m) \in Int

LEMMA PendingType == TypeOK /\ HeadOfList => PendingTyped
<1> SUFFICES ASSUME TypeOK, HeadOfList PROVE PendingTyped OBVIOUS
<1> USE ShapeOfType
<1>1. /\ list["group_messages"] \in Seq(Msg) /\ rows["group_messages"] \in Seq(Msg)
    BY DEF Shape, Table
<1>2. Pending \in Seq(Msg)
    <2>1. CASE flush.at = "inserted" /\ flush.table = "group_messages"
        <3>1. flush.batch \in Seq(Msg) /\ Prefix(flush.batch, list["group_messages"])
            BY <2>1 DEF Shape, HeadOfList
        <3>2. Len(flush.batch) \in Nat /\ Len(flush.batch) <= Len(list["group_messages"])
            BY <3>1, LenProperties DEF Prefix
        <3> QED BY <1>1, <2>1, <3>2, Rest DEF Pending
    <2>2. CASE ~(flush.at = "inserted" /\ flush.table = "group_messages")
        BY <1>1, <2>2 DEF Pending
    <2> QED BY <2>1, <2>2
<1>3. ASSUME NEW m \in GroupMsg PROVE Held(m) \in Nat /\ Pushed(m) \in Int
    <2>1. Times(m, Pending) \in Nat /\ Times(m, rows["group_messages"]) \in Nat
        BY <1>1, <1>2, TimesPlaces
    <2>2. m \in Msg /\ left[m] \in Nat /\ MemberCount \in Nat
        BY CountAssumption DEF Shape, Msg
    <2> QED BY <2>1, <2>2 DEF Held, Pushed
<1> QED BY <1>2, <1>3 DEF PendingTyped

LEMMA PendingTypeNext == TypeOK' /\ HeadOfList' => PendingTyped'
BY PendingType, PTL

\* A step that makes no task further and takes nothing away.
NoneLost ==
    \A m \in GroupMsg :
        Early(m)' => Early(m) /\ Pushed(m)' - Pushed(m) <= Held(m)' - Held(m)

LEMMA NoneLostKeeps ==
    ASSUME KeptInv, TypeOK', LeftToPush', HeadOfList', NoneLost PROVE KeptInv'
<1>1. ASSUME NEW m \in GroupMsg, Early(m)' PROVE Pushed(m)' <= Held(m)'
    <2>1. Early(m) /\ Pushed(m)' - Pushed(m) <= Held(m)' - Held(m) BY <1>1 DEF NoneLost
    <2>2. Pushed(m) <= Held(m) BY <2>1 DEF KeptInv, KeptOnce
    <2>3. Held(m) \in Nat /\ Pushed(m) \in Int BY PendingType DEF KeptInv, PendingTyped
    <2>4. Held(m)' \in Nat /\ Pushed(m)' \in Int BY PendingTypeNext DEF PendingTyped
    <2> QED BY <2>1, <2>2, <2>3, <2>4
<1> QED BY <1>1 DEF KeptInv, KeptOnce

\* ... which leaves the lists, the tables and the batch alone.
LEMMA ElsewhereKeeps ==
    ASSUME KeptInv, TypeOK', LeftToPush', UNCHANGED <<list, rows, flush>>,
           \A m \in GroupMsg : Early(m)' => Early(m) /\ Pushed(m)' <= Pushed(m)
    PROVE  KeptInv'
<1>1. HeadOfList' BY DEF KeptInv, HeadOfList
<1>2. \A m : Held(m)' = Held(m) BY DEF Held, Pending
<1>3. ASSUME NEW m \in GroupMsg, Early(m)'
      PROVE  Early(m) /\ Pushed(m)' - Pushed(m) <= Held(m)' - Held(m)
    <2>1. Held(m) \in Nat /\ Pushed(m) \in Int BY PendingType DEF KeptInv, PendingTyped
    <2>2. Pushed(m)' \in Int BY <1>1, PendingTypeNext DEF PendingTyped
    <2> QED BY <1>2, <1>3, <2>1, <2>2
<1> QED BY <1>1, <1>3, NoneLostKeeps DEF NoneLost

LEMMA AcceptKeeps ==
    ASSUME KeptInv, NEW n \in Msg, ChatAccept(n) \/ GroupAccept(n) PROVE KeptInv'
<1>1. /\ UNCHANGED <<list, rows, groupVars, flush, running, crashes>>
      /\ task[n] = "unsent"
      /\ \/ /\ task' = [task EXCEPT ![n] = "pushing"]
            /\ \E k \in 1 .. MemberCount : left' = [left EXCEPT ![n] = k]
            /\ n \in GroupMsg => left' = [left EXCEPT ![n] = MemberCount]
         \/ task' = [task EXCEPT ![n] = "refused"] /\ left' = left
    <2>1. 1 \in 1 .. MemberCount /\ MemberCount \in 1 .. MemberCount BY CountAssumption
    <2>2. ~(n \in PrivateMsg /\ n \in GroupMsg) BY MsgAssumption
    <2> QED BY <2>1, <2>2 DEF ChatAccept, GroupAccept
<1>2. MemberCount \in Nat BY CountAssumption
<1>3. /\ task' \in [Msg -> {"unsent", "refused", "pushing", "over"}]
      /\ left' \in [Msg -> 0 .. MemberCount]
    <2>1. /\ task \in [Msg -> {"unsent", "refused", "pushing", "over"}]
          /\ left \in [Msg -> 0 .. MemberCount]
        BY ShapeOfType DEF KeptInv, Shape
    <2>2. CASE \E k \in 1 .. MemberCount : left' = [left EXCEPT ![n] = k]
        <3>1. PICK k \in 1 .. MemberCount : left' = [left EXCEPT ![n] = k] BY <2>2
        <3>2. k \in 0 .. MemberCount BY <1>2, <3>1
        <3> QED BY <1>1, <2>1, <3>1, <3>2
    <2>3. CASE left' = left BY <1>1, <2>1, <2>3
    <2> QED BY <1>1, <2>2, <2>3
<1>4. TypeOK' BY <1>1, <1>3 DEF KeptInv, TypeOK, groupVars
<1>5. LeftToPush'
    <2> SUFFICES ASSUME NEW m \in Msg, task'[m] = "pushing"
                 PROVE  left'[m] \in 1 .. MemberCount
        BY DEF LeftToPush
    <2>1. CASE m = n
        <3>1. CASE task' = [task EXCEPT ![n] = "refused"]
            BY <2>1, <3>1, ShapeOfType DEF KeptInv, Shape
        <3>2. CASE \E k \in 1 .. MemberCount : left' = [left EXCEPT ![n] = k]
            BY <2>1, <3>2, ShapeOfType DEF KeptInv, Shape
        <3> QED BY <1>1, <3>1, <3>2
    <2>2. CASE m # n
        <3>1. task'[m] = task[m] /\ left'[m] = left[m]
            BY <1>1, <2>2, ShapeOfType DEF KeptInv, Shape
        <3> QED BY <3>1 DEF KeptInv, LeftToPush
    <2> QED BY <2>1, <2>2
<1>6. ASSUME NEW m \in GroupMsg, Early(m)' PROVE Early(m) /\ Pushed(m)' <= Pushed(m)
    <2>1. Early(m) BY <1>1, <1>6 DEF Early, groupVars
    <2>2. m \in Msg /\ left[m] \in 0 .. MemberCount
        BY ShapeOfType DEF KeptInv, Shape, Msg
    <2>3. CASE m = n
        <3>1. Pushed(m) = 0 BY <1>1, <2>3 DEF Pushed
        <3>2. Pushed(m)' = 0
            BY <1>1, <1>2, <2>2, <2>3, ShapeOfType DEF KeptInv, Shape, Pushed
        <3> QED BY <2>1, <3>1, <3>2
    <2>4. CASE m # n
        <3>1. task'[m] = task[m] /\ left'[m] = left[m]
            BY <1>1, <2>2, <2>4, ShapeOfType DEF KeptInv, Shape
        <3>2. Pushed(m)' = Pushed(m) BY <3>1 DEF Pushed
        <3>3. Pushed(m) \in Int BY PendingType DEF KeptInv, PendingTyped
        <3> QED BY <2>1, <3>2, <3>3
    <2> QED BY <2>1, <2>3, <2>4
<1> QED BY <1>1, <1>4, <1>5, <1>6, ElsewhereKeeps

\* One entry more in the list for one push more of its task.
LEMMA PushCounts ==
    ASSUME KeptInv, NEW n \in Msg, Push(n) PROVE KeptInv'
<1> DEFINE t == TableOf(n)
           l == list[t]
<1>1. /\ task[n] = "pushing" /\ left' = [left EXCEPT ![n] = @ - 1]
      /\ list' = [list EXCEPT ![t] = Append(l, n)]
      /\ task' = IF left[n] = 1 THEN [task EXCEPT ![n] = "over"] ELSE task
      /\ UNCHANGED <<rows, groupVars, flush, running, crashes>>
    BY DEF Push
<1>2. MemberCount \in Nat /\ left[n] \in 1 .. MemberCount
    BY <1>1, CountAssumption DEF KeptInv, LeftToPush
<1>3. t \in Table /\ l \in Seq(Msg) BY ShapeOfType DEF KeptInv, Shape, Table, TableOf
<1>4. /\ Append(l, n) \in Seq(Msg) /\ Len(Append(l, n)) = Len(l) + 1 /\ Len(l) \in Nat
      /\ \A i \in 1 .. Len(l) : Append(l, n)[i] = l[i]
    BY <1>3, AppendProperties, LenProperties
<1> HIDE DEF t, l
<1>5. /\ task' \in [Msg -> {"unsent", "refused", "pushing", "over"}]
      /\ left' \in [Msg -> 0 .. MemberCount] /\ list' \in [Table -> Seq(Msg)]
    <2>1. left[n] - 1 \in 0 .. MemberCount BY <1>2
    <2> QED BY <1>1, <1>4, <2>1, ShapeOfType DEF KeptInv, Shape
<1>6. TypeOK' BY <1>1, <1>5 DEF KeptInv, TypeOK, groupVars
<1>7. LeftToPush'
    <2> SUFFICES ASSUME NEW m \in Msg, task'[m] = "pushing"
                 PROVE  left'[m] \in 1 .. MemberCount
        BY DEF LeftToPush
    <2>1. CASE m = n
        <3>1. left[n] # 1 BY <1>1, <2>1, ShapeOfType DEF KeptInv, Shape
        <3>2. left'[n] = left[n] - 1 BY <1>1, ShapeOfType DEF KeptInv, Shape
        <3> QED BY <1>2, <2>1, <3>1, <3>2
    <2>2. CASE m # n
        <3>1. task'[m] = task[m] /\ left'[m] = left[m]
            BY <1>1, <2>2, ShapeOfType DEF KeptInv, Shape
        <3> QED BY <3>1 DEF KeptInv, LeftToPush
    <2> QED BY <2>1, <2>2
<1>8. HeadOfList'
    <2> SUFFICES ASSUME flush.at \in {"read", "inserted"}
                 PROVE  Prefix(flush.batch, list'[flush.table])
        BY <1>1 DEF HeadOfList
    <2>1. flush.batch \in Seq(Msg) /\ flush.table \in Table
        BY ShapeOfType DEF KeptInv, Shape
    <2>2. Prefix(flush.batch, list[flush.table]) BY DEF KeptInv, HeadOfList
    <2>3. Len(flush.batch) \in Nat BY <2>1, LenProperties
    <2>4. CASE flush.table = t
        <3>1. list'[flush.table] = Append(l, n)
            BY <1>1, <2>1, <2>4, ShapeOfType DEF KeptInv, Shape
        <3>2. Prefix(flush.batch, l) BY <2>2, <2>4 DEF l
        <3>3. \A i \in 1 .. Len(flush.batch) : i \in 1 .. Len(l)
            BY <1>4, <2>3, <3>2 DEF Prefix
        <3> QED BY <1>4, <2>3, <3>1, <3>2, <3>3 DEF Prefix
    <2>5. CASE flush.table # t
        <3>1. list'[flush.table] = list[flush.table]
            BY <1>1, <2>1, <2>5, ShapeOfType DEF KeptInv, Shape
        <3> QED BY <2>2, <3>1
    <2> QED BY <2>4, <2>5
<1>9. Pending' = IF n \in PrivateMsg THEN Pending ELSE Append(Pending, n)
    <2>1. CASE n \in PrivateMsg
        <3>1. list'["group_messages"] = list["group_messages"]
            BY <1>1, <2>1, ShapeOfType DEF KeptInv, Shape, TableOf, t, Table
        <3>2. flush' = flush BY <1>1
        <3>3. Pending' = Pending BY ONLY <3>1, <3>2 DEF Pending
        <3> QED BY <2>1, <3>3
    <2>2. CASE n \notin PrivateMsg
        <3>1. l = list["group_messages"] /\ list'["group_messages"] = Append(l, n)
            BY <1>1, <2>2, ShapeOfType DEF KeptInv, Shape, TableOf, t, l, Table
        <3>2. CASE ~(flush.at = "inserted" /\ flush.table = "group_messages")
            BY <1>1, <2>2, <3>1, <3>2 DEF Pending
        <3>3. CASE flush.at = "inserted" /\ flush.table = "group_messages"
            <4>1. flush.batch \in Seq(Msg) /\ Prefix(flush.batch, l)
                BY <3>1, <3>3, ShapeOfType DEF KeptInv, Shape, HeadOfList
            <4>2. PICK k : k = Len(flush.batch) OBVIOUS
            <4>3. k \in Nat /\ k <= Len(l) BY <4>1, <4>2, LenProperties DEF Prefix
            <4>4. SubSeq(Append(l, n), k + 1, Len(l) + 1) = Append(SubSeq(l, k + 1, Len(l)), n)
                BY <1>3, <4>3, RestOfAppend
            <4>5. Pending = SubSeq(l, k + 1, Len(l)) BY <3>1, <3>3, <4>2 DEF Pending
            <4>6. Pending' = SubSeq(Append(l, n), k + 1, Len(l) + 1)
                BY <1>1, <1>4, <3>1, <3>3, <4>2 DEF Pending
            <4> QED BY <2>2, <4>4, <4>5, <4>6
        <3> QED BY <3>2, <3>3
    <2> QED BY <2>1, <2>2
<1>10. ASSUME NEW m \in GroupMsg, Early(m)'
       PROVE  Early(m) /\ Pushed(m)' - Pushed(m) <= Held(m)' - Held(m)
    <2>1. Early(m) BY <1>1, <1>10 DEF Early, groupVars
    <2>2. PendingTyped /\ PendingTyped'
        BY <1>6, <1>8, PendingType, PendingTypeNext DEF KeptInv
    <2>3. /\ Held(m) \in Nat /\ Pushed(m) \in Int /\ Held(m)' \in Nat /\ Pushed(m)' \in Int
          /\ m \in Msg
        BY <2>2 DEF PendingTyped, Msg
    <2>4. rows' = rows BY <1>1
    <2>5. Times(m, rows["group_messages"]) \in Nat /\ Times(m, Pending) \in Nat
        <3>1. rows["group_messages"] \in Seq(Msg) BY ShapeOfType DEF KeptInv, Shape, Table
        <3> QED BY <2>2, <3>1, TimesPlaces DEF PendingTyped
    <2>6. CASE m = n
        <3>1. n \notin PrivateMsg BY <2>6, MsgAssumption
        <3>2. Times(m, Append(Pending, n)) = Times(m, Pending) + 1
            BY <2>2, <2>6, TimesOfAppend DEF PendingTyped
        <3>3. Held(m)' = Held(m) + 1 BY <1>9, <2>4, <2>5, <3>1, <3>2 DEF Held
        <3>4. Pushed(m) = MemberCount - left[m] BY <1>1, <2>6 DEF Pushed
        <3>5. task'[m] \in {"pushing", "over"} /\ left'[m] = left[m] - 1
            BY <1>1, <2>3, <2>6, ShapeOfType DEF KeptInv, Shape
        <3>6. Pushed(m)' = MemberCount - (left[m] - 1) BY <3>5 DEF Pushed
        <3> QED BY <1>2, <2>1, <2>3, <2>6, <3>3, <3>4, <3>6
    <2>7. CASE m # n
        <3>1. task'[m] = task[m] /\ left'[m] = left[m]
            BY <1>1, <2>3, <2>7, ShapeOfType DEF KeptInv, Shape
        <3>2. Pushed(m)' = Pushed(m) BY <3>1 DEF Pushed
        <3>3. Times(m, Append(Pending, n)) = Times(m, Pending) + 0
            BY <2>2, <2>7, TimesOfAppend DEF PendingTyped
        <3>4. Held(m)' = Held(m) BY <1>9, <2>4, <2>5, <3>3 DEF Held
        <3> QED BY <2>1, <2>3, <3>2, <3>4
    <2> QED BY <2>6, <2>7
<1> QED BY <1>6, <1>7, <1>8, <1>10, NoneLostKeeps DEF NoneLost

LEMMA ReadCounts ==
    ASSUME KeptInv, ReadList PROVE KeptInv'
<1>1. PICK t \in Table :
          /\ flush.at \in {"idle", "next"}
          /\ flush' = [at |-> "read", table |-> t, batch |-> FirstEntries(list[t], BatchLimit)]
          /\ UNCHANGED <<taskVars, list, rows, groupVars, running, crashes>>
    BY DEF ReadList, Read, Table
<1>2. list[t] \in Seq(Msg) BY ShapeOfType DEF KeptInv, Shape
<1>3. PICK b : b = FirstEntries(list[t], BatchLimit) OBVIOUS
<1>4. b \in Seq(Msg) /\ Prefix(b, list[t]) BY <1>2, <1>3, Batches DEF Prefix
<1>5. TypeOK'
    <2>1. flush' \in [at : {"read", "inserted"}, table : Table, batch : Seq(Msg)]
        BY <1>1, <1>3, <1>4
    <2> QED BY <1>1, <2>1 DEF KeptInv, TypeOK, taskVars, groupVars
<1>6. LeftToPush' BY <1>1 DEF KeptInv, LeftToPush, taskVars
<1>7. HeadOfList' BY <1>1, <1>3, <1>4 DEF HeadOfList
<1>8. Pending' = Pending
    <2>1. flush.at # "inserted" /\ flush'.at # "inserted" BY <1>1
    <2> QED BY <1>1, <2>1 DEF Pending
<1>9. ASSUME NEW m \in GroupMsg, Early(m)'
      PROVE  Early(m) /\ Pushed(m)' - Pushed(m) <= Held(m)' - Held(m)
    <2>1. Held(m)' = Held(m) /\ Pushed(m)' = Pushed(m) BY <1>1, <1>8 DEF Held, Pushed, taskVars
    <2>2. Held(m) \in Nat /\ Pushed(m) \in Int BY PendingType DEF KeptInv, PendingTyped
    <2> QED BY <1>1, <1>9, <2>1, <2>2 DEF Early, groupVars
<1> QED BY <1>5, <1>6, <1>7, <1>9, NoneLostKeeps DEF NoneLost

\* What is inserted does not count as waiting any more.
LEMMA InsertCounts ==
    ASSUME KeptInv, Insert PROVE KeptInv'
<1> DEFINE t == flush.table
           b == flush.batch
<1>1. /\ flush = [at |-> "read", table |-> t, batch |-> b]
      /\ flush' = [at |-> "inserted", table |-> t, batch |-> b]
      /\ t \in Table /\ b \in Seq(Msg) /\ list' = list
      /\ rows' = [rows EXCEPT ![t] = @ \o b]
      /\ UNCHANGED <<taskVars, groupVars, running, crashes>>
    BY ShapeOfType DEF Insert, KeptInv, Shape
<1>2. /\ list[t] \in Seq(Msg) /\ rows[t] \in Seq(Msg) /\ rows[t] \o b \in Seq(Msg)
      /\ Prefix(b, list[t])
    <2>1. list[t] \in Seq(Msg) /\ rows[t] \in Seq(Msg) BY <1>1, ShapeOfType DEF KeptInv, Shape
    <2>2. Prefix(b, list[t]) BY <1>1 DEF KeptInv, HeadOfList
    <2> QED BY <1>1, <2>1, <2>2, ConcatProperties
<1> HIDE DEF t, b
<1>3. rows' \in [Table -> Seq(Msg)] BY <1>1, <1>2, ShapeOfType DEF KeptInv, Shape
<1>4. TypeOK'
    <2>1. flush' \in [at : {"read", "inserted"}, table : Table, batch : Seq(Msg)] BY <1>1
    <2> QED BY <1>1, <1>3, <2>1 DEF KeptInv, TypeOK, taskVars, groupVars
<1>5. LeftToPush' BY <1>1 DEF KeptInv, LeftToPush, taskVars
<1>6. HeadOfList' BY <1>1, <1>2 DEF HeadOfList
<1>7. ASSUME NEW m \in GroupMsg PROVE Held(m)' = Held(m)
    <2> DEFINE l == list["group_messages"]
               r == rows["group_messages"]
    <2>1. l \in Seq(Msg) /\ r \in Seq(Msg) BY ShapeOfType DEF KeptInv, Shape, Table
    <2>2. flush.at = "read" /\ flush'.at = "inserted" /\ flush'.table = t /\ flush'.batch = b
        BY <1>1
    <2>3. Pending = l BY <2>2 DEF Pending
    <2>4. CASE t = "group_messages"
        <3>1. rows'["group_messages"] = r \o b
            BY <1>1, <2>4, ShapeOfType DEF KeptInv, Shape
        <3>2. Pending' = SubSeq(l, Len(b) + 1, Len(l)) BY <1>1, <2>2, <2>4 DEF Pending
        <3> HIDE DEF l, r
        <3>3. b \in Seq(Msg) /\ Prefix(b, l) BY <1>1, <1>2, <2>4 DEF l
        <3>4. Times(m, l) = Times(m, b) + Times(m, SubSeq(l, Len(b) + 1, Len(l)))
            BY <2>1, <3>3, TimesOfRest
        <3>5. Times(m, r \o b) = Times(m, r) + Times(m, b) BY <2>1, <3>3, TimesOfConcat
        <3>6. Pending' \in Seq(Msg)
            BY <1>4, <1>6, PendingTypeNext DEF PendingTyped
        <3>7. PICK p : p = Pending' OBVIOUS
        <3>8. /\ Times(m, r) \in Nat /\ Times(m, b) \in Nat /\ Times(m, p) \in Nat
            BY <2>1, <3>3, <3>6, <3>7, TimesPlaces
        <3>9. Held(m)' = Times(m, p) + Times(m, r \o b) BY <3>1, <3>7 DEF Held
        <3>10. Held(m) = Times(m, l) + Times(m, r) BY <2>3 DEF Held, r
        <3> QED BY <3>2, <3>4, <3>5, <3>7, <3>8, <3>9, <3>10
    <2>5. CASE t # "group_messages"
        <3>1. rows'["group_messages"] = r
            BY <1>1, <2>5, ShapeOfType DEF KeptInv, Shape, Table
        <3>2. Pending' = l BY <1>1, <2>2, <2>5 DEF Pending
        <3> QED BY <2>3, <3>1, <3>2 DEF Held
    <2> QED BY <2>4, <2>5
<1>8. ASSUME NEW m \in GroupMsg, Early(m)'
      PROVE  Early(m) /\ Pushed(m)' - Pushed(m) <= Held(m)' - Held(m)
    <2>1. Held(m)' = Held(m) /\ Pushed(m)' = Pushed(m) BY <1>1, <1>7 DEF Pushed, taskVars
    <2>2. Held(m) \in Nat /\ Pushed(m) \in Int BY PendingType DEF KeptInv, PendingTyped
    <2> QED BY <1>1, <1>8, <2>1, <2>2 DEF Early, groupVars
<1> QED BY <1>4, <1>5, <1>6, <1>8, NoneLostKeeps DEF NoneLost

\* No batch is on its way any more.
LEMMA NoBatch ==
    ASSUME flush' \in {Idle, Between}
    PROVE  HeadOfList' /\ Pending' = list'["group_messages"]
<1>1. flush'.at \notin {"read", "inserted"} BY DEF Idle, Between
<1> QED BY <1>1 DEF HeadOfList, Pending

LEMMA TrimCounts ==
    ASSUME KeptInv, Trim PROVE KeptInv'
<1> DEFINE t == flush.table
           b == flush.batch
<1>1. /\ flush.at = "inserted" /\ t \in Table /\ b \in Seq(Msg)
      /\ flush' \in {Idle, Between}
      /\ list' = [list EXCEPT ![t] = SubSeq(@, Len(b) + 1, Len(@))]
      /\ UNCHANGED <<taskVars, rows, groupVars, running, crashes>>
    BY ProceedLeaves, ShapeOfType DEF Trim, KeptInv, Shape
<1>2. list[t] \in Seq(Msg) /\ Prefix(b, list[t])
    BY <1>1, ShapeOfType DEF KeptInv, Shape, HeadOfList
<1> HIDE DEF t, b
<1>3. SubSeq(list[t], Len(b) + 1, Len(list[t])) \in Seq(Msg)
    <2>1. Len(b) \in Nat /\ Len(b) <= Len(list[t]) BY <1>1, <1>2, LenProperties DEF Prefix
    <2> QED BY <1>2, <2>1, Rest
<1>4. list' \in [Table -> Seq(Msg)] BY <1>1, <1>3, ShapeOfType DEF KeptInv, Shape
<1>5. TypeOK' BY <1>1, <1>4 DEF KeptInv, TypeOK, taskVars, groupVars
<1>6. LeftToPush' BY <1>1 DEF KeptInv, LeftToPush, taskVars
<1>7. HeadOfList' BY <1>1, NoBatch
<1>8. Pending' = Pending
    <2>1. Pending' = list'["group_messages"] BY <1>1, NoBatch
    <2>2. CASE t = "group_messages"
        <3>1. Pending = SubSeq(list[t], Len(b) + 1, Len(list[t]))
            BY <1>1, <2>2 DEF Pending, t, b
        <3>2. list'["group_messages"] = SubSeq(list[t], Len(b) + 1, Len(list[t]))
            BY <1>1, <2>2, ShapeOfType DEF KeptInv, Shape
        <3> QED BY <2>1, <3>1, <3>2
    <2>3. CASE t # "group_messages"
        <3>1. Pending = list["group_messages"] BY <2>3 DEF Pending, t
        <3>2. list'["group_messages"] = list["group_messages"]
            BY <1>1, <2>3, ShapeOfType DEF KeptInv, Shape, Table
        <3> QED BY <2>1, <3>1, <3>2
    <2> QED BY <2>2, <2>3
<1>9. ASSUME NEW m \in GroupMsg, Early(m)'
      PROVE  Early(m) /\ Pushed(m)' - Pushed(m) <= Held(m)' - Held(m)
    <2>1. Held(m)' = Held(m) /\ Pushed(m)' = Pushed(m) BY <1>1, <1>8 DEF Held, Pushed, taskVars
    <2>2. Held(m) \in Nat /\ Pushed(m) \in Int BY PendingType DEF KeptInv, PendingTyped
    <2> QED BY <1>1, <1>9, <2>1, <2>2 DEF Early, groupVars
<1> QED BY <1>5, <1>6, <1>7, <1>9, NoneLostKeeps DEF NoneLost

\* What waits is in the list.
LEMMA PendingIsListed ==
    ASSUME KeptInv, NEW m PROVE Times(m, Pending) <= Times(m, list["group_messages"])
<1> DEFINE l == list["group_messages"]
<1> SUFFICES Times(m, Pending) <= Times(m, l) OBVIOUS
<1>1. l \in Seq(Msg) /\ Pending \in Seq(Msg)
    BY ShapeOfType, PendingType DEF KeptInv, Shape, Table, PendingTyped
<1>2. Times(m, Pending) \in Nat /\ Times(m, l) \in Nat BY <1>1, TimesPlaces
<1>3. CASE ~(flush.at = "inserted" /\ flush.table = "group_messages")
    BY <1>2, <1>3 DEF Pending
<1>4. CASE flush.at = "inserted" /\ flush.table = "group_messages"
    <2>1. flush.batch \in Seq(Msg) /\ Prefix(flush.batch, l)
        BY <1>4, ShapeOfType DEF KeptInv, Shape, HeadOfList
    <2>2. PICK b : b = flush.batch OBVIOUS
    <2>3. Pending = SubSeq(l, Len(b) + 1, Len(l)) BY <1>4, <2>2 DEF Pending
    <2> HIDE DEF l
    <2>4. Times(m, l) = Times(m, b) + Times(m, SubSeq(l, Len(b) + 1, Len(l)))
        BY <1>1, <2>1, <2>2, TimesOfRest
    <2>5. Times(m, b) \in Nat BY <2>1, <2>2, TimesPlaces
    <2> QED BY <1>2, <2>3, <2>4, <2>5
<1> QED BY <1>3, <1>4

\* A batch is given up: it waits again, if it did not wait anyway.
LEMMA GivenUpCounts ==
    ASSUME KeptInv, TypeOK', LeftToPush', flush' \in {Idle, Between}, UNCHANGED <<list, rows>>,
           \A m \in GroupMsg : Early(m)' => Early(m) /\ Pushed(m)' = Pushed(m)
    PROVE  KeptInv'
<1> DEFINE l == list["group_messages"]
<1>1. HeadOfList' /\ Pending' = l BY NoBatch
<1>2. l \in Seq(Msg) /\ rows["group_messages"] \in Seq(Msg)
    BY ShapeOfType DEF KeptInv, Shape, Table
<1>3. Pending \in Seq(Msg) BY PendingType DEF KeptInv, PendingTyped
<1>4. \A m : Times(m, Pending) <= Times(m, l) BY PendingIsListed
<1>5. ASSUME NEW m \in GroupMsg, Early(m)'
      PROVE  Early(m) /\ Pushed(m)' - Pushed(m) <= Held(m)' - Held(m)
    <2>1. /\ Times(m, Pending) \in Nat /\ Times(m, l) \in Nat
          /\ Times(m, rows["group_messages"]) \in Nat
        BY <1>2, <1>3, TimesPlaces
    <2>2. Times(m, Pending) <= Times(m, l) BY <1>4
    <2>3. Held(m)' = Times(m, l) + Times(m, rows["group_messages"]) BY <1>1 DEF Held
    <2>4. Held(m) = Times(m, Pending) + Times(m, rows["group_messages"]) BY DEF Held
    <2>5. Pushed(m) \in Int BY PendingType DEF KeptInv, PendingTyped
    <2>6. Early(m) /\ Pushed(m)' = Pushed(m) BY <1>5
    <2> HIDE DEF l
    <2> QED BY <2>1, <2>2, <2>3, <2>4, <2>5, <2>6
<1> QED BY <1>1, <1>5, NoneLostKeeps DEF NoneLost

LEMMA FailureCounts ==
    ASSUME KeptInv, InsertFails PROVE KeptInv'
<1>1. /\ flush' \in {Idle, Between}
      /\ UNCHANGED <<taskVars, list, rows, groupVars, running, crashes>>
    BY ProceedLeaves DEF InsertFails
<1>2. TypeOK' BY <1>1 DEF KeptInv, TypeOK, taskVars, groupVars
<1>3. LeftToPush' BY <1>1 DEF KeptInv, LeftToPush, taskVars
<1>4. \A m \in GroupMsg : Early(m)' => Early(m) /\ Pushed(m)' = Pushed(m)
    BY <1>1 DEF Early, Pushed, taskVars, groupVars
<1> QED BY <1>1, <1>2, <1>3, <1>4, GivenUpCounts

LEMMA CrashCounts ==
    ASSUME KeptInv, Crash PROVE KeptInv'
<1>1. /\ flush' \in {Idle, Between} /\ running' = FALSE
      /\ crashes' = crashes + 1 /\ crashes < MaxCrashes /\ crashes \in 0 .. MaxCrashes
      /\ task' = [m \in Msg |-> IF task[m] = "pushing" THEN "over" ELSE task[m]]
      /\ UNCHANGED <<left, list, rows, cached, filling, members, groups, users>>
    BY DEF Crash, KeptInv, TypeOK
<1>2. dissolve' \in [Group -> {"no", "cache", "members", "messages", "over", "cut"}]
    BY ShapeOfType DEF Crash, KeptInv, Shape
<1>3. \A g \in Group : dissolve'[g] \in {"no", "cache", "members"}
                           => dissolve[g] \in {"no", "cache", "members"}
    BY ShapeOfType DEF Crash, KeptInv, Shape
<1>4. task' \in [Msg -> {"unsent", "refused", "pushing", "over"}]
    BY <1>1, ShapeOfType DEF KeptInv, Shape
<1>5. crashes' \in 0 .. MaxCrashes BY <1>1, CountAssumption
<1>6. TypeOK' BY <1>1, <1>2, <1>4, <1>5 DEF KeptInv, TypeOK
<1>7. LeftToPush' BY <1>1 DEF LeftToPush
<1>8. ASSUME NEW m \in GroupMsg, Early(m)' PROVE Early(m) /\ Pushed(m)' = Pushed(m)
    <2>1. m \in Msg /\ GroupOf[m] \in Group BY GroupAssumption DEF Msg
    <2>2. Early(m) BY <1>3, <1>8, <2>1 DEF Early
    <2>3. left' = left /\ (task'[m] \in {"pushing", "over"} <=> task[m] \in {"pushing", "over"})
        BY <1>1, <2>1
    <2> QED BY <2>2, <2>3 DEF Pushed
<1> QED BY <1>1, <1>6, <1>7, <1>8, GivenUpCounts

LEMMA DissolveCounts ==
    ASSUME KeptInv, NEW g \in Group,
           DissolveCache(g) \/ DissolveMembers(g) \/ DissolveGroup(g)
    PROVE  KeptInv'
<1>1. \E from, to \in {"no", "cache", "members", "messages", "over"} :
          /\ DissolveStep(g, from, to)
          /\ to \in {"no", "cache", "members"} => from \in {"no", "cache", "members"}
    BY DEF DissolveCache, DissolveMembers, DissolveGroup
<1>2. /\ dissolve' \in [Group -> {"no", "cache", "members", "messages", "over", "cut"}]
      /\ \A h \in Group : dissolve'[h] \in {"no", "cache", "members"}
                              => dissolve[h] \in {"no", "cache", "members"}
    BY <1>1, ShapeOfType DEF DissolveStep, KeptInv, Shape
<1>3. /\ UNCHANGED <<taskVars, list, rows, filling, users, flush, running, crashes>>
      /\ cached' \in SUBSET cached /\ members' \in SUBSET members /\ groups' \in SUBSET groups
    BY DEF DissolveCache, DissolveMembers, DissolveGroup
<1>4. TypeOK' BY <1>2, <1>3 DEF KeptInv, TypeOK, taskVars
<1>5. LeftToPush' BY <1>3 DEF KeptInv, LeftToPush, taskVars
<1>6. ASSUME NEW m \in GroupMsg, Early(m)' PROVE Early(m) /\ Pushed(m)' <= Pushed(m)
    <2>1. GroupOf[m] \in Group BY GroupAssumption
    <2>2. Early(m) BY <1>2, <1>6, <2>1 DEF Early
    <2>3. Pushed(m)' = Pushed(m) BY <1>3 DEF Pushed, taskVars
    <2>4. Pushed(m) \in Int BY PendingType DEF KeptInv, PendingTyped
    <2> QED BY <2>2, <2>3, <2>4
<1> QED BY <1>3, <1>4, <1>5, <1>6, ElsewhereKeeps

\* The messages of one group disappear, those of the others do not.
LEMMA DeletionCounts ==
    ASSUME KeptInv, NEW g \in Group, DissolveMessages(g) PROVE KeptInv'
<1> DEFINE r == rows["group_messages"]
<1>1. /\ dissolve' = [dissolve EXCEPT ![g] = "messages"]
      /\ rows' = [rows EXCEPT !["group_messages"] = Without(r, g)]
      /\ UNCHANGED <<taskVars, list, cached, filling, members, groups, users, flush,
                     running, crashes>>
    BY Zenon DEF DissolveMessages, DissolveStep
<1>2. r \in Seq(Msg) BY ShapeOfType DEF KeptInv, Shape, Table
<1> HIDE DEF r
<1>3. /\ Without(r, g) \in Seq(Msg)
      /\ \A m : GroupOf[m] # g => Times(m, Without(r, g)) = Times(m, r)
    BY <1>2, OthersStay
<1>4. PICK w : w = Without(r, g) OBVIOUS
<1>5. rows' \in [Table -> Seq(Msg)] /\ rows'["group_messages"] = w
    BY <1>1, <1>3, <1>4, ShapeOfType DEF KeptInv, Shape, Table
<1>6. dissolve' \in [Group -> {"no", "cache", "members", "messages", "over", "cut"}]
    BY <1>1, ShapeOfType DEF KeptInv, Shape
<1>7. TypeOK' BY <1>1, <1>5, <1>6 DEF KeptInv, TypeOK, taskVars
<1>8. LeftToPush' BY <1>1 DEF KeptInv, LeftToPush, taskVars
<1>9. HeadOfList' BY <1>1 DEF KeptInv, HeadOfList
<1>10. ASSUME NEW m \in GroupMsg, Early(m)'
       PROVE  Early(m) /\ Pushed(m)' - Pushed(m) <= Held(m)' - Held(m)
    <2>1. GroupOf[m] \in Group BY GroupAssumption
    <2>2. GroupOf[m] # g /\ Early(m)
        BY <1>1, <1>10, <2>1, ShapeOfType DEF Early, KeptInv, Shape
    <2>3. Times(m, w) = Times(m, r) BY <1>3, <1>4, <2>2
    <2>4. Pending' = Pending BY <1>1 DEF Pending
    <2>5. Held(m)' = Held(m) BY <1>5, <2>3, <2>4 DEF Held, r
    <2>6. Pushed(m)' = Pushed(m) BY <1>1 DEF Pushed, taskVars
    <2>7. Held(m) \in Nat /\ Pushed(m) \in Int BY PendingType DEF KeptInv, PendingTyped
    <2> QED BY <2>2, <2>5, <2>6, <2>7
<1> QED BY <1>7, <1>8, <1>9, <1>10, NoneLostKeeps DEF NoneLost

\* Steps that have to do with Redis's sets or the table users only.
LEMMA CacheKeeps ==
    ASSUME KeptInv, \/ Restart \/ SelectMembers \/ UNCHANGED vars
                    \/ \E g \in Group : FillGroup(g)
                    \/ \E u \in User : DeleteUser(u)
    PROVE  KeptInv'
<1>1. UNCHANGED <<task, left, list, rows, dissolve, flush>>
    BY DEF Restart, SelectMembers, FillGroup, DeleteUser, vars, taskVars, groupVars
<1>2. TypeOK'
    <2>1. CASE Restart BY <2>1 DEF Restart, KeptInv, TypeOK, taskVars
    <2>2. CASE SelectMembers BY <2>2 DEF SelectMembers, KeptInv, TypeOK, taskVars
    <2>3. CASE \E g \in Group : FillGroup(g)
        <3>1. PICK g \in Group : FillGroup(g) BY <2>3
        <3>2. filling \in [at : {"fill"}, groups : SUBSET Group]
            BY <3>1 DEF FillGroup, KeptInv, TypeOK
        <3>3. filling' \in [at : {"fill"}, groups : SUBSET Group] /\ cached' \in SUBSET Group
            BY <3>1, <3>2 DEF FillGroup, KeptInv, TypeOK
        <3> QED BY <3>1, <3>3 DEF FillGroup, KeptInv, TypeOK, taskVars
    <2>4. CASE UNCHANGED vars BY <2>4 DEF vars, taskVars, groupVars, KeptInv, TypeOK
    <2>5. CASE \E u \in User : DeleteUser(u)
        BY <2>5 DEF DeleteUser, KeptInv, TypeOK, taskVars
    <2> QED BY <2>1, <2>2, <2>3, <2>4, <2>5
<1>3. LeftToPush' BY <1>1 DEF KeptInv, LeftToPush
<1>4. \A m \in GroupMsg : Early(m)' => Early(m) /\ Pushed(m)' <= Pushed(m)
    <2>1. \A m : Early(m)' = Early(m) /\ Pushed(m)' = Pushed(m) BY <1>1 DEF Early, Pushed
    <2>2. \A m \in GroupMsg : Pushed(m) \in Int BY PendingType DEF KeptInv, PendingTyped
    <2> QED BY <2>1, <2>2
<1> QED BY <1>1, <1>2, <1>3, <1>4, ElsewhereKeeps

LEMMA KeptInitially == Init => KeptInv
<1> SUFFICES ASSUME Init PROVE KeptInv OBVIOUS
<1> USE DEF Init
<1>1. TypeOK BY CountAssumption, EmptySeq DEF TypeOK, Idle
<1>2. LeftToPush BY DEF LeftToPush
<1>3. HeadOfList BY DEF HeadOfList, Idle
<1>4. ASSUME NEW m \in GroupMsg PROVE Pushed(m) <= Held(m)
    <2>1. Pushed(m) = 0 BY DEF Pushed, Msg
    <2>2. Held(m) \in Nat BY <1>1, <1>3, PendingType DEF PendingTyped
    <2> QED BY <2>1, <2>2
<1> QED BY <1>1, <1>2, <1>3, <1>4 DEF KeptInv, KeptOnce

LEMMA KeptStep == KeptInv /\ [Next]_vars => KeptInv'
<1> SUFFICES ASSUME KeptInv, [Next]_vars PROVE KeptInv' OBVIOUS
<1>1. ASSUME NEW m \in Msg, ChatAccept(m) \/ GroupAccept(m) PROVE KeptInv'
    BY <1>1, AcceptKeeps
<1>2. ASSUME NEW m \in Msg, Push(m) PROVE KeptInv' BY <1>2, PushCounts
<1>3. ASSUME FlushStep PROVE KeptInv'
    BY <1>3, ReadCounts, InsertCounts, FailureCounts, TrimCounts DEF FlushStep
<1>4. ASSUME NEW g \in Group, DissolveCache(g) \/ DissolveMembers(g) \/ DissolveGroup(g)
      PROVE  KeptInv'
    BY <1>4, DissolveCounts
<1>5. ASSUME NEW g \in Group, DissolveMessages(g) PROVE KeptInv' BY <1>5, DeletionCounts
<1>6. ASSUME \/ Restart \/ SelectMembers \/ UNCHANGED vars
             \/ \E g \in Group : FillGroup(g)
             \/ \E u \in User : DeleteUser(u)
      PROVE  KeptInv'
    BY <1>6, CacheKeeps
<1> QED BY <1>1, <1>2, <1>3, <1>4, <1>5, <1>6, CrashCounts DEF Next

LEMMA KeptIsKept == KeptInv => KeptUnlessDissolved
<1> SUFFICES ASSUME KeptInv, NEW m \in GroupMsg, Early(m)
             PROVE  Pushed(m) <= Times(m, list["group_messages"])
                                     + Times(m, rows["group_messages"])
    BY DEF KeptUnlessDissolved, Early
<1>1. /\ list["group_messages"] \in Seq(Msg) /\ rows["group_messages"] \in Seq(Msg)
      /\ Pending \in Seq(Msg) /\ Pushed(m) \in Int
    BY ShapeOfType, PendingType DEF KeptInv, Shape, Table, PendingTyped
<1>2. /\ Times(m, list["group_messages"]) \in Nat /\ Times(m, rows["group_messages"]) \in Nat
      /\ Times(m, Pending) \in Nat
    BY <1>1, TimesPlaces
<1>3. Times(m, Pending) <= Times(m, list["group_messages"]) BY PendingIsListed
<1>4. Pushed(m) <= Times(m, Pending) + Times(m, rows["group_messages"])
    BY DEF KeptInv, KeptOnce, Held
<1> QED BY <1>1, <1>2, <1>3, <1>4

\* No push of a group message is lost before its group's messages are deleted, for any
\* number of messages, groups, members and crashes, and whatever is pushed, fails or dies
\* between lrange and ltrim; and the batch that is trimmed is the batch that was stored.
THEOREM CacheSafe == Spec => []CacheInv
<1>1. Init => KeptInv /\ PrivateInv BY KeptInitially, Initially
<1>2. KeptInv /\ PrivateInv /\ [Next]_vars => KeptInv' /\ PrivateInv' BY KeptStep, Steps
<1>3. KeptInv /\ PrivateInv => CacheInv
    BY KeptIsKept DEF KeptInv, PrivateInv, CacheInv
<1> QED BY <1>1, <1>2, <1>3, PTL DEF Spec
================================================================================
