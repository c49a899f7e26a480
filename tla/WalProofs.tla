------------------------------ MODULE WalProofs ------------------------------
(***************************************************************************)
(* Theorems about Wal: as long as the file is sound, the log is durable as *)
(* DurableLog promises, for every number of records, crashes and faults.   *)
(***************************************************************************)
EXTENDS Wal, StoreLemmas, TLAPS

Entry == Record \cup {Torn}

-----------------------------------------------------------------------------
(* Replay.                                                                 *)

\* Replay gives the records before the first damaged entry.
LEMMA ReplayStops ==
  ASSUME NEW e \in Seq(Entry)
  PROVE  /\ Replay(e) \in Seq(Record)
         /\ Len(Replay(e)) \in 0..Len(e)
         /\ \A i \in 1..Len(Replay(e)) : Replay(e)[i] = e[i] /\ e[i] # Torn
         /\ Len(Replay(e)) < Len(e) => e[Len(Replay(e)) + 1] = Torn
<1> DEFINE torn == {i \in DOMAIN e : e[i] = Torn}
           r == IF torn = {} THEN Len(e) ELSE Min(torn) - 1
<1>1. Len(e) \in Nat /\ DOMAIN e = 1..Len(e)
  OBVIOUS
<1>2. /\ torn \in SUBSET Nat
      /\ \A i \in 1..Len(e) : i \in torn <=> e[i] = Torn
      /\ torn \subseteq 1..Len(e)
  BY <1>1
<1>3. /\ r \in 0..Len(e)
      /\ \A i \in 1..r : e[i] # Torn
      /\ r < Len(e) => e[r + 1] = Torn
  <2> HIDE DEF torn
  <2>1. CASE torn = {}
    BY <1>1, <1>2, <2>1
  <2>2. CASE torn # {}
    <3> DEFINE m == Min(torn)
    <3>1. m \in torn /\ \A x \in torn : m <= x
      BY <1>2, <2>2, MinExists
    <3>2. r = m - 1
      BY <2>2
    <3> HIDE DEF m, r
    <3>3. m \in 1..Len(e)
      BY <1>2, <3>1
    <3>4. \A i \in 1..r : i \notin torn /\ i \in 1..Len(e)
      BY <1>1, <3>1, <3>2, <3>3
    <3> QED
      BY <1>1, <1>2, <3>1, <3>2, <3>3, <3>4
  <2> QED
    BY <2>1, <2>2
<1>5. Replay(e) = SubSeq(e, 1, r)
  BY DEF Replay
<1> HIDE DEF r
<1>6. \A i \in 1..r : e[i] \in Record
  BY <1>1, <1>3 DEF Entry
<1>7. /\ SubSeq(e, 1, r) \in Seq(Record)
      /\ Len(SubSeq(e, 1, r)) = r
      /\ \A i \in 1..r : SubSeq(e, 1, r)[i] = e[i]
  BY <1>1, <1>3, <1>6, SubSeqProperties
<1> QED
  BY <1>3, <1>5, <1>7

-----------------------------------------------------------------------------
(* The files that a crash can leave.                                       *)

\* Entries 1 to m of the file, and perhaps one more that is torn.
Left(f, m) ==
  /\ f \in Seq(Entry)
  /\ Len(f) \in {m, m + 1}
  /\ \A i \in 1..m : f[i] = file[i]
  /\ Len(f) = m + 1 => f[m + 1] = Torn

LEMMA CrashLeaves ==
  ASSUME file \in Seq(Entry), durable \in 0..Len(file), NEW f \in AfterCrash
  PROVE  \E m \in durable..Len(file) : Left(f, m)
<1>0. Len(file) \in Nat /\ durable \in Nat
  OBVIOUS
<1>1. ASSUME NEW m \in durable..Len(file)
      PROVE  Left(SubSeq(file, 1, m), m) /\ Left(Append(SubSeq(file, 1, m), Torn), m)
  <2>1. m \in Nat /\ m <= Len(file)
    BY <1>0
  <2>2. \A i \in 1..m : file[i] \in Entry
    BY <2>1
  <2> DEFINE s == SubSeq(file, 1, m)
  <2>3. s \in Seq(Entry) /\ Len(s) = m /\ \A i \in 1..m : s[i] = file[i]
    BY <2>1, <2>2, SubSeqProperties
  <2> HIDE DEF s
  <2>4. Torn \in Entry
    BY DEF Entry
  <2>5. /\ Append(s, Torn) \in Seq(Entry) /\ Len(Append(s, Torn)) = m + 1
        /\ \A i \in 1..m : Append(s, Torn)[i] = s[i]
        /\ Append(s, Torn)[m + 1] = Torn
    BY <2>1, <2>3, <2>4, AppendProperties
  <2>6. Left(s, m)
    BY <2>1, <2>3 DEF Left
  <2>7. Left(Append(s, Torn), m)
    BY <2>1, <2>3, <2>5 DEF Left
  <2> QED
    BY <2>6, <2>7 DEF s
<1>2. file = SubSeq(file, 1, Len(file))
  BY SubSeqFull
<1>3. \E m \in durable..Len(file) :
        f = SubSeq(file, 1, m) \/ f = Append(SubSeq(file, 1, m), Torn)
  <2>1. CASE \E n \in durable..Len(file) : f = SubSeq(file, 1, n)
    BY <2>1
  <2>2. CASE \E n \in durable..(Len(file) - 1) : f = Append(SubSeq(file, 1, n), Torn)
    BY <1>0, <2>2
  <2>3. CASE f = Append(file, Torn)
    <3>1. Len(file) \in durable..Len(file)
      BY <1>0
    <3> QED
      BY <1>2, <2>3, <3>1
  <2> QED
    BY <2>1, <2>2, <2>3 DEF AfterCrash
<1> QED
  BY <1>1, <1>3, Zenon

-----------------------------------------------------------------------------
(* The inductive invariant.                                                *)

\* How many records of the buffer the flush in progress has written.
Written == IF pos = 0 THEN 0 ELSE pos - 1

\* Sound or not: what holds of the flush in progress and of the synced part.
FlushInv ==
  /\ pos > 0 => buffer # <<>>
  /\ pos > 1 => file # <<>> /\ file[Len(file)] = buffer[pos - 1]
  /\ durable > 0 => file[durable] # Torn
  /\ synced <= durable
  /\ Len(log) - Len(buffer) + Written <= Len(file)

\* The file and then the unwritten part of the buffer are the log.
LogMatch ==
  LET n == Len(Replay(file))
  IN  /\ Len(log) = n - Written + Len(buffer)
      /\ \A i \in 1..n : log[i] = file[i]
      /\ \A j \in 1..Len(buffer) : log[n - Written + j] = buffer[j]

WalInv == TypeOK /\ FlushInv /\ (Sound => LogMatch)

\* The types, with the lengths that the steps reason about.
LEMMA Lengths ==
  ASSUME TypeOK
  PROVE  /\ file \in Seq(Entry) /\ buffer \in Seq(Record) /\ log \in Seq(Record)
         /\ Len(file) \in Nat /\ Len(buffer) \in Nat /\ Len(log) \in Nat
         /\ pos \in Nat /\ pos <= Len(buffer) + 1
         /\ durable \in Nat /\ durable <= Len(file)
         /\ synced \in Nat /\ synced <= Len(log)
         /\ buffer # <<>> <=> Len(buffer) > 0
<1>1. file \in Seq(Entry) /\ buffer \in Seq(Record) /\ log \in Seq(Record)
  BY DEF TypeOK, Entry
<1>2. Len(file) \in Nat /\ Len(buffer) \in Nat /\ Len(log) \in Nat
  BY <1>1
<1>3. buffer # <<>> <=> Len(buffer) > 0
  BY <1>1, <1>2, EmptySeq
<1> QED
  BY <1>1, <1>2, <1>3 DEF TypeOK

\* One more at the end.
LEMMA Appended ==
  ASSUME NEW S, NEW s \in Seq(S), NEW e \in S
  PROVE  /\ Append(s, e) \in Seq(S)
         /\ Len(Append(s, e)) = Len(s) + 1
         /\ \A i \in 1..Len(s) : Append(s, e)[i] = s[i]
         /\ Append(s, e)[Len(s) + 1] = e
BY AppendProperties

\* put and del.
LEMMA WriteInv ==
  ASSUME WalInv, NEW k \in Key, WriteRecord(k)
  PROVE  WalInv'
<1> DEFINE record == [seq |-> seq + 1, key |-> k, id |-> appended]
<1>0. TypeOK /\ FlushInv
  BY DEF WalInv
<1>1. record \in Record
  BY <1>0 DEF TypeOK, Record
<1>2. buffer' = Append(buffer, record) /\ log' = Append(log, record) /\ pos = 0
  BY DEF WriteRecord
<1>3. UNCHANGED <<fd, pos, file, durable, faults, crashes, synced>>
        /\ seq' = seq + 1 /\ appended' = appended + 1
  BY DEF WriteRecord
<1> HIDE DEF record
<1>4. /\ buffer' \in Seq(Record) /\ Len(buffer') = Len(buffer) + 1
      /\ \A i \in 1..Len(buffer) : buffer'[i] = buffer[i]
      /\ buffer'[Len(buffer) + 1] = record
  BY <1>0, <1>1, <1>2, Appended, Lengths
<1>5. /\ log' \in Seq(Record) /\ Len(log') = Len(log) + 1
      /\ \A i \in 1..Len(log) : log'[i] = log[i]
      /\ log'[Len(log) + 1] = record
  BY <1>0, <1>1, <1>2, Appended, Lengths
<1>6. TypeOK'
  BY <1>0, <1>2, <1>3, <1>4, <1>5, Lengths DEF TypeOK
<1>7. FlushInv'
  BY <1>0, <1>2, <1>3, <1>4, <1>5, Lengths DEF FlushInv, Written
<1>8. Sound' => LogMatch'
  <2> SUFFICES ASSUME Sound' PROVE LogMatch'
    OBVIOUS
  <2> DEFINE n == Len(Replay(file))
  <2>1. Sound /\ n' = n
    BY <1>3 DEF Sound, Clean, Replay
  <2>2. LogMatch /\ n \in Nat
    BY <1>0, <2>1, Lengths, ReplayStops DEF WalInv
  <2>3. Written = 0 /\ Written' = 0
    BY <1>2, <1>3 DEF Written
  <2>4. /\ Len(log) = n + Len(buffer)
        /\ \A i \in 1..n : log[i] = file[i]
        /\ \A j \in 1..Len(buffer) : log[n + j] = buffer[j]
    BY <2>2, <2>3 DEF LogMatch
  <2> HIDE DEF n
  <2>5. Len(log') = n + Len(buffer') /\ Len(buffer) \in Nat
    BY <1>0, <1>4, <1>5, <2>2, <2>4, Lengths
  <2>6. ASSUME NEW i \in 1..n PROVE log'[i] = file[i]
    <3>1. i \in 1..Len(log)
      BY <2>2, <2>4, <2>5
    <3> QED
      BY <1>5, <2>4, <3>1
  <2>7. ASSUME NEW j \in 1..Len(buffer') PROVE log'[n + j] = buffer'[j]
    <3>1. CASE j \in 1..Len(buffer)
      <4>1. n + j \in 1..Len(log)
        BY <2>2, <2>4, <2>5, <3>1
      <4> QED
        BY <1>4, <1>5, <2>4, <3>1, <4>1
    <3>2. CASE j = Len(buffer) + 1
      <4>1. n + j = Len(log) + 1
        BY <2>2, <2>4, <2>5, <3>2
      <4> QED
        BY <1>4, <1>5, <3>2, <4>1
    <3> QED
      BY <1>4, <2>5, <3>1, <3>2
  <2> QED
    BY <1>3, <2>1, <2>2, <2>3, <2>5, <2>6, <2>7 DEF LogMatch, n
<1> QED
  BY <1>6, <1>7, <1>8 DEF WalInv

\* flush: one record more in the file.
LEMMA FlushWriteInv ==
  ASSUME WalInv, FlushWrite
  PROVE  WalInv'
<1>0. TypeOK /\ FlushInv
  BY DEF WalInv
<1>1. pos \in 1..Len(buffer) /\ file' = Append(file, buffer[pos]) /\ pos' = pos + 1
        /\ UNCHANGED <<fd, buffer, durable, seq, appended, faults, crashes, log, synced>>
  BY DEF FlushWrite
<1>2. buffer[pos] \in Record /\ buffer[pos] \in Entry
  BY <1>0, <1>1, Lengths DEF Entry
<1>3. /\ file' \in Seq(Entry) /\ Len(file') = Len(file) + 1
      /\ \A i \in 1..Len(file) : file'[i] = file[i]
      /\ file'[Len(file) + 1] = buffer[pos]
  BY <1>0, <1>1, <1>2, Appended, Lengths
<1>4. TypeOK'
  BY <1>0, <1>1, <1>3, Lengths DEF TypeOK, Entry
<1>5. FlushInv'
  <2>1. file' # <<>>
    BY <1>0, <1>3, Lengths, EmptySeq
  <2>2. durable' > 0 => file'[durable'] # Torn
    BY <1>0, <1>1, <1>3, Lengths DEF FlushInv
  <2>3. Len(log') - Len(buffer') + Written' <= Len(file')
    BY <1>0, <1>1, <1>3, Lengths DEF FlushInv, Written
  <2>4. file'[Len(file')] = buffer'[pos' - 1]
    BY <1>0, <1>1, <1>3, Lengths
  <2> QED
    BY <1>0, <1>1, <2>1, <2>2, <2>3, <2>4, Lengths DEF FlushInv
<1>6. Sound' => LogMatch'
  <2> SUFFICES ASSUME Sound' PROVE LogMatch'
    OBVIOUS
  <2>1. \A i \in 1..Len(file') : file'[i] = Torn => i = Len(file')
    BY <1>3 DEF Sound, Clean
  <2>2. \A i \in 1..Len(file) : file[i] # Torn
    BY <1>0, <1>3, <2>1, Lengths
  <2>3. Sound
    BY <1>0, <1>1, <2>2, Lengths DEF Sound, Clean
  <2> DEFINE n == Len(Replay(file))
             m == Len(Replay(file'))
  <2>4. n \in 0..Len(file) /\ (n < Len(file) => file[n + 1] = Torn)
    BY <1>0, Lengths, ReplayStops
  <2>5. m \in 0..Len(file') /\ (m < Len(file') => file'[m + 1] = Torn)
    BY <1>3, ReplayStops
  <2>6. LogMatch
    BY <2>3 DEF WalInv
  <2>7. Written = pos - 1 /\ Written' = pos
    BY <1>0, <1>1, Lengths DEF Written
  <2>8. /\ Len(log) = n - (pos - 1) + Len(buffer)
        /\ \A i \in 1..n : log[i] = file[i]
        /\ \A j \in 1..Len(buffer) : log[n - (pos - 1) + j] = buffer[j]
    BY <2>6, <2>7 DEF LogMatch
  <2> HIDE DEF n, m
  <2>9. n = Len(file)
    BY <1>0, <2>2, <2>4, Lengths
  <2>10. m = n + 1
    <3>1. buffer[pos] # Torn
      BY <1>2, WalAssumption
    <3>2. ASSUME m < Len(file') PROVE FALSE
      <4>1. m + 1 \in 1..Len(file) \/ m + 1 = Len(file) + 1
        BY <1>0, <1>3, <2>5, <3>2, Lengths
      <4> QED
        BY <1>3, <2>2, <2>5, <3>1, <3>2, <4>1
    <3> QED
      BY <1>0, <1>3, <2>5, <2>9, <3>2, Lengths
  <2>11. Len(log) = m - pos + Len(buffer)
    BY <1>0, <1>1, <2>4, <2>8, <2>10, Lengths
  <2>12. ASSUME NEW i \in 1..m PROVE log[i] = file'[i]
    <3>1. CASE i \in 1..n
      BY <1>3, <2>8, <2>9, <3>1
    <3>2. CASE i = n + 1
      <4>1. i = n - (pos - 1) + pos /\ i = Len(file) + 1
        BY <1>0, <1>1, <2>4, <2>9, <3>2, Lengths
      <4> QED
        BY <1>1, <1>3, <2>8, <4>1
    <3> QED
      BY <1>0, <2>4, <2>10, <3>1, <3>2, Lengths
  <2>13. ASSUME NEW j \in 1..Len(buffer) PROVE log[m - pos + j] = buffer[j]
    <3>1. m - pos + j = n - (pos - 1) + j
      BY <1>0, <2>4, <2>10, Lengths
    <3> QED
      BY <2>8, <3>1
  <2> QED
    BY <1>1, <2>7, <2>11, <2>12, <2>13, Zenon DEF LogMatch, m
<1> QED
  BY <1>4, <1>5, <1>6 DEF WalInv

\* flush ends: what it wrote is durable.
LEMMA FlushSyncInv ==
  ASSUME WalInv, FlushSync
  PROVE  WalInv'
<1>0. TypeOK /\ FlushInv
  BY DEF WalInv
<1>1. pos = Len(buffer) + 1 /\ pos' = 0 /\ buffer' = <<>> /\ durable' = Len(file)
        /\ synced' = Len(log)
        /\ UNCHANGED <<fd, file, seq, appended, faults, crashes, log>>
  BY DEF FlushSync
<1>2. buffer' \in Seq(Record) /\ Len(buffer') = 0
  BY <1>1
<1>3. TypeOK'
  BY <1>0, <1>1, <1>2, Lengths DEF TypeOK
<1>4. Len(buffer) > 0 /\ Written = Len(buffer)
  BY <1>0, <1>1, Lengths DEF FlushInv, Written
<1>5. file[Len(file)] # Torn
  <2>1. file[Len(file)] = buffer[Len(buffer)]
    BY <1>0, <1>1, <1>4, Lengths DEF FlushInv
  <2>2. buffer[Len(buffer)] \in Record
    BY <1>0, <1>4, Lengths
  <2> QED
    BY <2>1, <2>2, WalAssumption
<1>6. Len(log) <= Len(file)
  BY <1>0, <1>4, Lengths DEF FlushInv
<1>7. FlushInv'
  BY <1>0, <1>1, <1>2, <1>5, <1>6, Lengths DEF FlushInv, Written
<1>8. Sound' => LogMatch'
  <2> SUFFICES ASSUME Sound' PROVE LogMatch'
    OBVIOUS
  <2> DEFINE n == Len(Replay(file))
  <2>1. Sound /\ n' = n
    BY <1>1 DEF Sound, Clean, Replay
  <2>2. LogMatch /\ n \in Nat
    BY <1>0, <2>1, Lengths, ReplayStops DEF WalInv
  <2>3. Len(log) = n - Len(buffer) + Len(buffer) /\ \A i \in 1..n : log[i] = file[i]
    BY <1>4, <2>2 DEF LogMatch
  <2> HIDE DEF n
  <2>4. Len(log) = n - 0 + 0
    BY <1>0, <2>2, <2>3, Lengths
  <2>5. Written' = 0
    BY <1>1 DEF Written
  <2>6. \A j \in 1..Len(buffer') : FALSE
    BY <1>2
  <2> QED
    BY <1>1, <1>2, <2>1, <2>3, <2>4, <2>5, <2>6 DEF LogMatch, n
<1> QED
  BY <1>3, <1>7, <1>8 DEF WalInv

\* flush fails: from then on the file is not sound.
LEMMA FlushFailInv ==
  ASSUME WalInv, FlushWriteFail \/ FlushSyncFail
  PROVE  WalInv'
<1>0. TypeOK /\ FlushInv
  BY DEF WalInv
<1>1. /\ pos' = 0 /\ faults' = faults + 1
      /\ UNCHANGED <<fd, buffer, durable, seq, appended, crashes, log, synced>>
      /\ pos > 0
      /\ file' = file \/ file' = Append(file, Torn)
  BY <1>0, Lengths DEF FlushWriteFail, FlushSyncFail
<1>2. Torn \in Entry
  BY DEF Entry
<1>3. /\ file' \in Seq(Entry) /\ Len(file') \in {Len(file), Len(file) + 1}
      /\ \A i \in 1..Len(file) : file'[i] = file[i]
  <2>1. file \in Seq(Entry)
    BY <1>0, Lengths
  <2>2. /\ Append(file, Torn) \in Seq(Entry)
        /\ Len(Append(file, Torn)) = Len(file) + 1
        /\ \A i \in 1..Len(file) : Append(file, Torn)[i] = file[i]
    BY <1>2, <2>1, Appended
  <2> QED
    BY <1>1, <2>1, <2>2
<1>4. TypeOK'
  BY <1>0, <1>1, <1>3, Lengths DEF TypeOK, Entry
<1>5. FlushInv'
  BY <1>0, <1>1, <1>3, Lengths, SMTT(30) DEF FlushInv, Written
<1>6. ~Sound'
  BY <1>0, <1>1 DEF Sound, TypeOK
<1> QED
  BY <1>4, <1>5, <1>6 DEF WalInv

\* A file without entries, or one that was replayed.
LEMMA RotateInv ==
  ASSUME WalInv, Rotate
  PROVE  WalInv'
<1>0. TypeOK /\ FlushInv
  BY DEF WalInv
<1>1. /\ pos = 0 /\ file' = <<>> /\ durable' = 0 /\ log' = buffer /\ synced' = 0
      /\ UNCHANGED <<fd, buffer, pos, seq, appended, faults, crashes>>
  BY DEF Rotate
<1>2. file' \in Seq(Entry) /\ Len(file') = 0
  BY <1>1
<1>3. TypeOK'
  BY <1>0, <1>1, <1>2, Lengths DEF TypeOK, Entry
<1>4. FlushInv'
  BY <1>0, <1>1, <1>2, Lengths DEF FlushInv, Written
<1>5. Len(Replay(file')) = 0
  <2>1. Len(Replay(file')) \in 0..Len(file')
    BY <1>2, ReplayStops, Zenon
  <2> QED
    BY <1>2, <2>1
<1>6. LogMatch'
  <2>1. Written' = 0
    BY <1>1 DEF Written
  <2>2. Len(log') = 0 - 0 + Len(buffer') /\ \A i \in 1..0 : FALSE
    BY <1>0, <1>1, Lengths
  <2>3. \A j \in 1..Len(buffer') : log'[0 - 0 + j] = buffer'[j]
    BY <1>0, <1>1, Lengths
  <2> QED
    BY <1>5, <2>1, <2>2, <2>3 DEF LogMatch
<1> QED
  BY <1>3, <1>4, <1>6 DEF WalInv

LEMMA CrashInv ==
  ASSUME WalInv, Crash
  PROVE  WalInv'
<1>0. TypeOK /\ FlushInv
  BY DEF WalInv
<1>1. PICK f \in AfterCrash : /\ file' = f /\ log' = Replay(f)
                              /\ synced' = Min({synced, Len(Replay(f))})
  BY Zenon DEF Crash
<1>2. /\ fd' = FALSE /\ buffer' = <<>> /\ pos' = 0 /\ seq' = 0 /\ crashes' = crashes + 1
      /\ UNCHANGED <<durable, appended, faults>>
  BY DEF Crash
<1>3. PICK m \in durable..Len(file) : Left(f, m)
  BY <1>0, CrashLeaves, Lengths
<1>4. m \in Nat /\ durable <= m /\ m <= Len(f) /\ f \in Seq(Entry) /\ Len(f) \in Nat
        /\ \A i \in 1..m : f[i] = file[i]
  BY <1>0, <1>3, Lengths DEF Left
<1>5. Replay(f) \in Seq(Record) /\ Len(Replay(f)) \in 0..Len(f)
        /\ \A i \in 1..Len(Replay(f)) : Replay(f)[i] = f[i]
  BY <1>4, ReplayStops
<1>6. synced' \in Nat /\ synced' <= synced /\ synced' <= Len(Replay(f))
  <2>1. {synced, Len(Replay(f))} \in SUBSET Nat
    BY <1>0, <1>4, <1>5, Lengths
  <2> QED
    BY <1>1, <2>1, MinExists
<1>7. buffer' \in Seq(Record) /\ Len(buffer') = 0
  BY <1>2
<1>8. TypeOK'
  <2>1. file' \in Seq(Record \cup {Torn}) /\ durable' \in 0..Len(file')
    BY <1>0, <1>1, <1>2, <1>4, Lengths DEF Entry
  <2>2. log' \in Seq(Record) /\ synced' \in 0..Len(log')
    BY <1>1, <1>4, <1>5, <1>6
  <2>3. pos' \in 0..(Len(buffer') + 1) /\ crashes' \in Nat
    BY <1>0, <1>2, <1>7 DEF TypeOK
  <2> QED
    BY <1>0, <1>2, <1>7, <2>1, <2>2, <2>3, Zenon DEF TypeOK
<1>9. FlushInv'
  <2>1. durable' > 0 => file'[durable'] # Torn
    BY <1>0, <1>1, <1>2, <1>4, Lengths DEF FlushInv
  <2>2. Len(log') - Len(buffer') + Written' <= Len(file')
    BY <1>1, <1>2, <1>4, <1>5, <1>7 DEF Written
  <2>3. synced' <= durable'
    BY <1>0, <1>2, <1>6, Lengths DEF FlushInv
  <2> QED
    BY <1>2, <2>1, <2>2, <2>3 DEF FlushInv
<1>10. LogMatch'
  <2>1. Written' = 0
    BY <1>2 DEF Written
  <2>2. Len(log') = Len(Replay(file')) - 0 + Len(buffer')
    BY <1>1, <1>4, <1>5, <1>7
  <2>3. \A j \in 1..Len(buffer') : FALSE
    BY <1>7
  <2> QED
    BY <1>1, <1>5, <2>1, <2>2, <2>3 DEF LogMatch
<1> QED
  BY <1>8, <1>9, <1>10 DEF WalInv

\* The largest sequence number of a sequence of records, which open takes up.
LEMMA MaxSeqType ==
  ASSUME NEW r \in Seq(Record)
  PROVE  MaxSeq(r) \in Nat
<1> DEFINE Bounded(n, b) == \A i \in 1..n : i <= Len(r) => r[i].seq <= b
           T == {n \in Nat : \E b \in Nat : Bounded(n, b)}
           S == {0} \cup {r[i].seq : i \in DOMAIN r}
<1>1. Len(r) \in Nat /\ DOMAIN r = 1..Len(r) /\ \A i \in 1..Len(r) : r[i].seq \in Nat
  <2>1. Len(r) \in Nat /\ DOMAIN r = 1..Len(r) /\ \A i \in 1..Len(r) : r[i] \in Record
    OBVIOUS
  <2>2. \A x \in Record : x.seq \in Nat
    BY DEF Record
  <2> QED
    BY <2>1, <2>2
<1>2. T \in SUBSET Nat
  OBVIOUS
<1>3. 0 \in T
  <2>1. Bounded(0, 0)
    OBVIOUS
  <2> QED
    BY <2>1
<1>4. ASSUME NEW n \in T PROVE n + 1 \in T
  <2>1. PICK b \in Nat : Bounded(n, b)
    OBVIOUS
  <2>2. PICK t \in Nat : n + 1 <= Len(r) => r[n + 1].seq = t
    BY <1>1
  <2>3. PICK c \in Nat : b <= c /\ t <= c
    <3>1. b <= b + t /\ t <= b + t /\ b + t \in Nat
      BY <2>1, <2>2
    <3> QED
      BY <3>1
  <2>4. Bounded(n + 1, c)
    BY <1>1, <2>1, <2>2, <2>3, SMTT(30)
  <2> QED
    BY <2>4
<1>5. T = Nat
  BY <1>2, <1>3, <1>4, InductiveSet, Zenon
<1>6. PICK b \in Nat : Bounded(Len(r), b)
  <2>1. Len(r) \in T
    <3> HIDE DEF T
    <3> QED
      BY <1>1, <1>5
  <2> QED
    BY <2>1
<1>7. S \in SUBSET (0..b) /\ S # {}
  BY <1>1, <1>6
<1> HIDE DEF S
<1>8. Max(S) \in S
  BY <1>7, MaxExists, Zenon
<1>9. MaxSeq(r) = Max(S)
  BY DEF MaxSeq, S
<1>10. Max(S) \in 0..b
  BY <1>7, <1>8, Zenon
<1> QED
  BY <1>9, <1>10

\* Steps that do not touch the file or the log.
LEMMA StillInv ==
  ASSUME WalInv, Open \/ FlushBegin \/ UNCHANGED vars
  PROVE  WalInv'
<1>0. TypeOK /\ FlushInv
  BY DEF WalInv
<1>1. UNCHANGED <<buffer, file, durable, appended, faults, crashes, log, synced>>
  BY DEF Open, FlushBegin, vars
<1>2. \/ pos' = pos
      \/ pos = 0 /\ pos' = 1 /\ buffer # <<>>
  BY DEF Open, FlushBegin, vars
<1>3. fd' \in BOOLEAN
  BY <1>0, Zenon DEF Open, FlushBegin, vars, TypeOK
<1>4. seq' \in Nat
  <2>1. CASE Open
    <3>1. Replay(file) \in Seq(Record)
      BY <1>0, Lengths, ReplayStops
    <3> QED
      BY <2>1, <3>1, MaxSeqType DEF Open
  <2> QED
    BY <1>0, <2>1 DEF FlushBegin, vars, TypeOK
<1>5. TypeOK'
  BY <1>0, <1>1, <1>2, <1>3, <1>4, Lengths DEF TypeOK
<1>6. Written' = Written
  BY <1>2 DEF Written
<1>7. FlushInv'
  BY <1>0, <1>1, <1>2, <1>6, Lengths DEF FlushInv
<1>8. Sound' => LogMatch'
  BY <1>1, <1>6, Zenon DEF WalInv, Sound, Clean, LogMatch, Replay
<1> QED
  BY <1>5, <1>7, <1>8 DEF WalInv

LEMMA WalInit == Init => WalInv
<1> SUFFICES ASSUME Init PROVE WalInv
  OBVIOUS
<1>1. /\ file \in Seq(Entry) /\ Len(file) = 0 /\ Len(buffer) = 0 /\ Len(log) = 0
      /\ buffer \in Seq(Record) /\ log \in Seq(Record)
  BY DEF Init
<1>2. TypeOK
  <2>1. file \in Seq(Record \cup {Torn})
    BY <1>1 DEF Entry
  <2>2. pos \in 0..(Len(buffer) + 1) /\ durable \in 0..Len(file) /\ synced \in 0..Len(log)
    BY <1>1 DEF Init
  <2>3. /\ fd \in BOOLEAN /\ seq \in Nat /\ appended \in Nat /\ faults \in Nat
        /\ crashes \in Nat
    BY Zenon DEF Init
  <2> QED
    BY <1>1, <2>1, <2>2, <2>3 DEF TypeOK
<1>3. FlushInv
  BY <1>1 DEF Init, FlushInv, Written
<1>4. Len(Replay(file)) = 0
  <2>1. Len(Replay(file)) \in 0..Len(file)
    BY <1>1, ReplayStops, Zenon
  <2> QED
    BY <1>1, <2>1
<1>5. LogMatch
  BY <1>1, <1>4 DEF Init, LogMatch, Written
<1> QED
  BY <1>2, <1>3, <1>5 DEF WalInv

LEMMA WalNext == WalInv /\ [Next]_vars => WalInv'
BY StillInv, WriteInv, FlushWriteInv, FlushSyncInv, FlushFailInv, RotateInv, CrashInv
   DEF Next, FlushStep, FlushEmpty

-----------------------------------------------------------------------------
(* The theorems.                                                           *)

\* Whatever a crash leaves of a sound file, replay finds a prefix of the log that
\* has everything synced.
LEMMA CrashKeeps ==
  ASSUME WalInv, Sound, NEW f \in AfterCrash
  PROVE  /\ Len(Replay(f)) \in synced..Len(log)
         /\ Replay(f) = SubSeq(log, 1, Len(Replay(f)))
<1> DEFINE r == Len(Replay(f))
           n == Len(Replay(file))
<1>0. TypeOK /\ FlushInv /\ LogMatch
  BY DEF WalInv
<1>1. PICK m \in durable..Len(file) : Left(f, m)
  BY <1>0, CrashLeaves, Lengths
<1>2. /\ m \in Nat /\ durable <= m /\ m <= Len(file)
      /\ f \in Seq(Entry) /\ Len(f) \in {m, m + 1}
      /\ \A i \in 1..m : f[i] = file[i]
      /\ Len(f) = m + 1 => f[m + 1] = Torn
  BY <1>0, <1>1, Lengths DEF Left
<1>3. /\ Replay(f) \in Seq(Record) /\ r \in 0..Len(f)
      /\ \A i \in 1..r : Replay(f)[i] = f[i] /\ f[i] # Torn
      /\ r < Len(f) => f[r + 1] = Torn
  BY <1>2, ReplayStops
<1>4. /\ n \in 0..Len(file)
      /\ \A i \in 1..n : file[i] # Torn
      /\ n < Len(file) => file[n + 1] = Torn
  BY <1>0, Lengths, ReplayStops
<1>5. /\ Len(log) = n - Written + Len(buffer)
      /\ \A i \in 1..n : log[i] = file[i]
  BY <1>0 DEF LogMatch
<1>6. Written \in Nat /\ Written <= Len(buffer)
  BY <1>0, Lengths DEF Written
<1>7. log \in Seq(Record) /\ Len(log) \in Nat /\ Len(file) \in Nat /\ Len(buffer) \in Nat
        /\ synced \in Nat /\ durable \in Nat /\ synced <= durable
        /\ (durable > 0 => file[durable] # Torn)
  BY <1>0, Lengths DEF FlushInv
<1>8. \A i \in 1..Len(file) : file[i] = Torn => i = Len(file)
  BY <1>0, Lengths DEF Sound, Clean
<1> HIDE DEF r, n
<1>9. r <= m
  BY <1>2, <1>3
<1>10. r <= n
  <2> SUFFICES ASSUME n < r PROVE FALSE
    BY <1>2, <1>3, <1>4
  <2>1. n + 1 \in 1..r /\ n + 1 \in 1..m /\ n < Len(file)
    BY <1>2, <1>3, <1>4, <1>7, <1>9
  <2> QED
    BY <1>2, <1>3, <1>4, <2>1, Zenon
<1>11. durable <= r
  <2> SUFFICES ASSUME r < durable PROVE FALSE
    BY <1>3, <1>7
  <2>1. r + 1 \in 1..m /\ r < Len(f) /\ r + 1 \in 1..Len(file)
    BY <1>2, <1>3, <1>7
  <2>2. file[r + 1] = Torn
    BY <1>2, <1>3, <2>1
  <2>3. r + 1 = Len(file)
    BY <1>8, <2>1, <2>2
  <2>4. r + 1 = durable
    BY <1>2, <1>3, <1>7, <2>3
  <2> QED
    BY <1>3, <1>7, <2>2, <2>4
<1>12. r \in Nat /\ r <= Len(log) /\ synced <= r
  BY <1>2, <1>3, <1>4, <1>5, <1>6, <1>7, <1>10, <1>11
<1>13. /\ SubSeq(log, 1, r) \in Seq(Record) /\ Len(SubSeq(log, 1, r)) = r
       /\ \A i \in 1..r : SubSeq(log, 1, r)[i] = log[i]
  <2>1. \A i \in 1..r : log[i] \in Record
    BY <1>7, <1>12
  <2> QED
    BY <1>12, <2>1, SubSeqProperties
<1>14. \A i \in 1..r : Replay(f)[i] = log[i]
  <2> SUFFICES ASSUME NEW i \in 1..r PROVE Replay(f)[i] = log[i]
    OBVIOUS
  <2>1. i \in 1..m /\ i \in 1..n
    BY <1>2, <1>4, <1>9, <1>10, <1>12
  <2> QED
    BY <1>2, <1>3, <1>5, <2>1
<1>15. Len(Replay(f)) = r
  BY DEF r
<1>16. Replay(f) = SubSeq(log, 1, r)
  BY <1>3, <1>13, <1>14, <1>15, SeqEqual
<1> QED
  BY <1>7, <1>12, <1>16 DEF r

\* Every variable of the log has its type, whatever fails and whatever tears.
THEOREM TypeCorrect == Spec => []TypeOK
<1>1. WalInv => TypeOK
  BY DEF WalInv
<1> QED
  BY <1>1, WalInit, WalNext, PTL DEF Spec

\* As long as nothing was written behind a torn tail and no flush has failed, a
\* crash at any step recovers a state that the log had since its last flush.
THEOREM SoundLogRecovers == Spec => []CleanRecovers
<1>1. WalInv => CleanRecovers
  BY CrashKeeps, Zenon DEF CleanRecovers, RecoversDurableState, SameState
<1> QED
  BY <1>1, WalInit, WalNext, PTL DEF Spec

\* A step between sound files is a step of the abstract log.
LEMMA LogSteps ==
  ASSUME WalInv, [Next]_vars, Sound, Sound'
  PROVE  DL!Next \/ UNCHANGED DL!vars
<1>0. TypeOK /\ LogMatch
  BY DEF WalInv
<1>1. ASSUME NEW k \in Key, WriteRecord(k) PROVE DL!Accept
  <2> DEFINE record == [seq |-> seq + 1, key |-> k, id |-> appended]
  <2>1. log' = Append(log, record) /\ synced' = synced
    BY <1>1 DEF WriteRecord
  <2>2. record \in Record
    BY <1>0 DEF TypeOK, Record
  <2> HIDE DEF record
  <2>3. log \in Seq(Record) /\ Len(log) \in Nat
    BY <1>0, Lengths
  <2>4. /\ log' \in Seq(Record) /\ Len(log') = Len(log) + 1
        /\ \A i \in 1..Len(log) : log'[i] = log[i]
    BY <2>1, <2>2, <2>3, Appended
  <2>5. \A i \in 1..Len(log) : log'[i] \in Record
    BY <2>3, <2>4
  <2>6. /\ SubSeq(log', 1, Len(log)) \in Seq(Record)
        /\ Len(SubSeq(log', 1, Len(log))) = Len(log)
        /\ \A i \in 1..Len(log) : SubSeq(log', 1, Len(log))[i] = log'[i]
    BY <2>3, <2>5, SubSeqProperties
  <2>7. SubSeq(log', 1, Len(log)) = log
    BY <2>3, <2>4, <2>6, SeqEqual
  <2> QED
    BY <2>1, <2>4, <2>7 DEF DL!Accept
<1>2. ASSUME FlushSync PROVE DL!Sync
  BY <1>2 DEF FlushSync, DL!Sync
<1>3. ASSUME Rotate PROVE DL!Rotate
  <2> DEFINE n == Len(Replay(file))
  <2>1. log' = buffer /\ synced' = 0 /\ Written = 0
    BY <1>3 DEF Rotate, Written
  <2>2. /\ log \in Seq(Record) /\ Len(log) \in Nat
        /\ buffer \in Seq(Record) /\ Len(buffer) \in Nat /\ n \in Nat
    BY <1>0, Lengths, ReplayStops
  <2>3. Len(log) = n + Len(buffer) /\ \A j \in 1..Len(buffer) : log[n + j] = buffer[j]
    BY <1>0, <2>1, <2>2 DEF LogMatch
  <2> HIDE DEF n
  <2> DEFINE rest == SubSeq(log, n + 1, Len(log))
  <2>4. \A i \in (n + 1)..Len(log) : log[i] \in Record
    BY <2>2
  <2>5. /\ rest \in Seq(Record)
        /\ Len(rest) = IF n + 1 <= Len(log) THEN Len(log) - (n + 1) + 1 ELSE 0
        /\ \A i \in 1..(Len(log) - (n + 1) + 1) : rest[i] = log[n + 1 + i - 1]
    BY <2>2, <2>4, SubSeqProperties
  <2> HIDE DEF rest
  <2>6. Len(rest) = Len(buffer) /\ \A i \in 1..Len(buffer) : rest[i] = log[n + i]
    <3>1. Len(log) - (n + 1) + 1 = Len(buffer)
      BY <2>2, <2>3
    <3>2. Len(rest) = Len(buffer)
      BY <2>2, <2>3, <2>5
    <3>3. \A i \in 1..Len(buffer) : n + 1 + i - 1 = n + i
      BY <2>2
    <3> QED
      BY <2>5, <3>1, <3>2, <3>3
  <2>7. rest = buffer
    BY <2>2, <2>3, <2>5, <2>6, SeqEqual
  <2>8. n \in 0..Len(log)
    BY <2>2, <2>3
  <2> QED
    BY <2>1, <2>7, <2>8 DEF DL!Rotate, rest
<1>4. ASSUME Crash PROVE DL!Crash
  <2>1. PICK f \in AfterCrash : log' = Replay(f) /\ synced' = Min({synced, Len(Replay(f))})
    BY <1>4, Zenon DEF Crash
  <2>2. /\ Len(Replay(f)) \in synced..Len(log)
        /\ Replay(f) = SubSeq(log, 1, Len(Replay(f)))
    BY CrashKeeps
  <2>3. synced \in Nat /\ Len(Replay(f)) \in Nat /\ synced <= Len(Replay(f))
    BY <1>0, <2>2, Lengths
  <2>4. synced' = synced
    <3> DEFINE S == {synced, Len(Replay(f))}
    <3>1. S \in SUBSET Nat /\ S # {}
      BY <2>3
    <3>2. Min(S) \in S /\ \A x \in S : Min(S) <= x
      BY <3>1, MinExists
    <3> QED
      BY <2>1, <2>3, <3>2
  <2> QED
    BY <2>1, <2>2, <2>4, Zenon DEF DL!Crash
<1>5. ASSUME \/ Open \/ FlushBegin \/ FlushWrite \/ FlushWriteFail \/ FlushSyncFail
             \/ UNCHANGED vars
      PROVE  UNCHANGED DL!vars
  BY <1>5 DEF Open, FlushBegin, FlushWrite, FlushWriteFail, FlushSyncFail, vars, DL!vars
<1> QED
  BY <1>1, <1>2, <1>3, <1>4, <1>5 DEF Next, FlushStep, FlushEmpty, DL!Next

\* As long as the file is sound, the WAL is the abstract durable log, step by step.
THEOREM LogRefinement == Spec => ImplementsLog
<1>1. Init => DL!Init
  BY DEF Init, DL!Init
<1>2. WalInv /\ [Next]_vars
        => [Sound /\ Sound' => DL!Next \/ UNCHANGED DL!vars]_vars
  BY LogSteps
<1> QED
  BY <1>1, <1>2, WalInit, WalNext, PTL DEF Spec, ImplementsLog

=============================================================================
