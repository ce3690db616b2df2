--------------------------- MODULE EventLogProofs ---------------------------
(***************************************************************************)
(* Proofs about JournalFile and EventLog, for any number of appends.       *)
(*                                                                         *)
(* What a reader is shown is not inductive: an append to a file whose tail *)
(* is not empty would spoil its line.  FileInv adds that a process which   *)
(* has seen no error appends behind a newline, that an unfinished line is  *)
(* one piece, and that the ids rise from line to line.  Sound says what is *)
(* left of that once a process goes on after an error: a record behind a   *)
(* fragment makes a line that does not parse.  LogInv adds that every      *)
(* event is of a confirmed record before the one now due, and that the     *)
(* writer's number is above all it can read on ended lines.                *)
(***************************************************************************)
EXTENDS EventLog, SequenceTheorems, WellFoundedInduction, TLAPS

FileTyped ==
    /\ made \in {"none", "dir", "file"} /\ pc \in {"off", "starting", "open"}
    /\ lines \in Seq(Seq(Piece)) /\ tail \in Seq(Piece)
    /\ tried \in 0..MaxRecords /\ acked \subseteq 1..tried
    /\ failed \in BOOLEAN /\ careless \in BOOLEAN

(* A run whose Header was never written is not appended to again. *)
Begun ==
    /\ pc = "open" => made = "file"
    /\ pc = "starting" => tried = 0
    /\ failed => pc = "open"
    /\ made # "file" => tried = 0 /\ lines = <<>> /\ tail = <<>>
    /\ tried = 0 => lines = <<>> /\ tail = <<>>

Rising(ls, n) ==
    /\ \A i \in DOMAIN ls : Parses(ls[i]) /\ ls[i][1].id \in 1..n
    /\ \A i, j \in DOMAIN ls : i < j => ls[i][1].id < ls[j][1].id

Follows(ls, tl, n) ==
    /\ Len(tl) <= 1
    /\ tl # <<>> => /\ tl[1].id \in 1..n
                    /\ \A i \in DOMAIN ls : ls[i][1].id < tl[1].id

Holds(ls, ids) == \A n \in ids : \E i \in DOMAIN ls : ls[i][1].id = n

Clean ==
    /\ Rising(lines, tried) /\ Follows(lines, tail, tried) /\ Holds(lines, acked)
    /\ pc # "off" /\ ~failed => tail = <<>>

FileInv == FileTyped /\ Begun /\ (~careless => Clean)

(* Whoever wrote the file, also after an error: the unfinished line, of    *)
(* however many pieces, begins with a record after those of the lines, and *)
(* as long as every line parses they hold what was confirmed.              *)
Begins(ls, tl, n) ==
    tl # <<>> => tl[1].id \in 1..n /\ \A i \in DOMAIN ls : ls[i][1].id < tl[1].id

Exact == Rising(lines, tried) /\ Begins(lines, tail, tried) /\ Holds(lines, acked)

Legible == \A i \in DOMAIN lines : Parses(lines[i])

Sound == Legible => Exact

(* One more line, with an id above those before it. *)
LEMMA RisingAppend ==
    ASSUME NEW ls \in Seq(Seq(Piece)), NEW n \in Nat, Rising(ls, n),
           NEW x \in Seq(Piece), Parses(x), x[1].id \in 1..n,
           \A i \in DOMAIN ls : ls[i][1].id < x[1].id
    PROVE  Rising(Append(ls, x), n) /\ Append(ls, x) \in Seq(Seq(Piece))
  <1> DEFINE L == Append(ls, x)
  <1>2. /\ L \in Seq(Seq(Piece)) /\ DOMAIN L = 1..(Len(ls) + 1) /\ DOMAIN ls = 1..Len(ls)
        /\ L[Len(ls) + 1] = x /\ Len(ls) \in Nat
        /\ \A i \in 1..Len(ls) : L[i] = ls[i]
    OBVIOUS
  <1> HIDE DEF L
  <1>3. \A i \in DOMAIN L : i \in DOMAIN ls \/ i = Len(ls) + 1
    BY <1>2
  <1>4. ASSUME NEW i \in DOMAIN ls PROVE i \in 1..Len(ls) /\ L[i] = ls[i]
    BY <1>2
  <1>5. ASSUME NEW i \in DOMAIN L PROVE Parses(L[i]) /\ L[i][1].id \in 1..n
    <2>1. CASE i \in DOMAIN ls
      <3>1. Parses(ls[i]) /\ ls[i][1].id \in 1..n
        BY <2>1 DEF Rising
      <3> QED BY <1>4, <2>1, <3>1
    <2>2. CASE i = Len(ls) + 1
      BY <1>2, <2>2
    <2> QED BY <1>3, <2>1, <2>2
  <1>6. ASSUME NEW i \in DOMAIN L, NEW j \in DOMAIN L, i < j PROVE L[i][1].id < L[j][1].id
    <2>1. i \in DOMAIN ls
      <3>1. i \in Nat /\ j \in Nat /\ 1 <= i /\ j <= Len(ls) + 1
        BY <1>2
      <3> QED BY <1>2, <1>6, <3>1
    <2>2. CASE j \in DOMAIN ls
      <3>1. ls[i][1].id < ls[j][1].id
        BY <1>6, <2>1, <2>2 DEF Rising
      <3> QED BY <1>4, <2>1, <2>2, <3>1
    <2>3. CASE j = Len(ls) + 1
      BY <1>2, <1>4, <2>1, <2>3
    <2> QED BY <1>3, <2>2, <2>3
  <1> QED BY <1>2, <1>5, <1>6 DEF Rising, L

(* The line of the next record. *)
LEMMA RisingGrows ==
    ASSUME NEW ls \in Seq(Seq(Piece)), NEW n \in Nat, n < MaxRecords, Rising(ls, n)
    PROVE  /\ Rising(ls, n + 1)
           /\ <<Whole(n + 1)>> \in Seq(Piece) /\ Parses(<<Whole(n + 1)>>)
           /\ <<Part(n + 1)>> \in Seq(Piece)
           /\ Follows(ls, <<>>, n + 1)
           /\ Follows(ls, <<Whole(n + 1)>>, n + 1) /\ Follows(ls, <<Part(n + 1)>>, n + 1)
           /\ Rising(Append(ls, <<Whole(n + 1)>>), n + 1)
           /\ Append(ls, <<Whole(n + 1)>>) \in Seq(Seq(Piece))
  <1>1. /\ <<Whole(n + 1)>> \in Seq(Piece) /\ Parses(<<Whole(n + 1)>>)
        /\ <<Part(n + 1)>> \in Seq(Piece) /\ <<Whole(n + 1)>>[1].id = n + 1
        /\ <<Part(n + 1)>>[1].id = n + 1
    BY MaxRecordsPos DEF Whole, Part, Piece, Parses
  <1>2. \A i \in DOMAIN ls : ls[i][1].id \in Nat /\ ls[i][1].id <= n /\ 1 <= ls[i][1].id
    BY DEF Rising
  <1>3. \A i \in DOMAIN ls : ls[i][1].id < n + 1 /\ ls[i][1].id \in 1..(n + 1)
    BY <1>2
  <1>4. Rising(ls, n + 1)
    BY <1>3 DEF Rising
  <1>5. n + 1 \in 1..(n + 1) /\ n + 1 \in Nat
    OBVIOUS
  <1>6. Follows(ls, <<Whole(n + 1)>>, n + 1) /\ Follows(ls, <<Part(n + 1)>>, n + 1)
        /\ Follows(ls, <<>>, n + 1)
    BY <1>1, <1>3, <1>5 DEF Follows
  <1>7. /\ Rising(Append(ls, <<Whole(n + 1)>>), n + 1)
        /\ Append(ls, <<Whole(n + 1)>>) \in Seq(Seq(Piece))
    BY <1>1, <1>3, <1>4, <1>5, RisingAppend
  <1> QED BY <1>1, <1>4, <1>6, <1>7

(* What a file holds it goes on holding, and its new line too. *)
LEMMA HoldsAppend ==
    ASSUME NEW ls \in Seq(Seq(Piece)), NEW x \in Seq(Piece), NEW ids, Holds(ls, ids)
    PROVE  Holds(Append(ls, x), ids) /\ Holds(Append(ls, x), ids \cup {x[1].id})
  <1> DEFINE L == Append(ls, x)
  <1>1. /\ DOMAIN L = 1..(Len(ls) + 1) /\ DOMAIN ls = 1..Len(ls) /\ Len(ls) \in Nat
        /\ L[Len(ls) + 1] = x /\ \A i \in 1..Len(ls) : L[i] = ls[i]
    OBVIOUS
  <1> HIDE DEF L
  <1>2. Len(ls) + 1 \in DOMAIN L /\ \A i \in DOMAIN ls : i \in DOMAIN L /\ L[i] = ls[i]
    BY <1>1
  <1>3. Holds(L, ids)
    BY <1>2 DEF Holds
  <1>4. Holds(L, ids \cup {x[1].id})
    BY <1>1, <1>2, <1>3 DEF Holds
  <1> QED BY <1>3, <1>4 DEF L

(* Before anything is written the file is as it should be. *)
LEMMA FileInvInit == Init => FileInv
  <1> SUFFICES ASSUME Init PROVE FileInv
    OBVIOUS
  <1>1. lines = <<>> /\ tail = <<>> /\ tried = 0 /\ acked = {} /\ DOMAIN lines = {} /\ Len(tail) = 0
    BY DEF Init
  <1>2. FileTyped
    <2>1. lines \in Seq(Seq(Piece)) /\ tail \in Seq(Piece)
      BY <1>1
    <2>2. tried \in 0..MaxRecords /\ acked \subseteq 1..tried
      BY <1>1, MaxRecordsPos
    <2> QED BY <2>1, <2>2 DEF Init, FileTyped
  <1>3. Begun
    BY DEF Init, Begun
  <1>4. Clean
    BY <1>1 DEF Clean, Rising, Follows, Holds
  <1> QED BY <1>2, <1>3, <1>4 DEF FileInv

(* The steps that write no record. *)
LEMMA FileInvQuiet ==
    ASSUME FileInv, CreateDir \/ CreateFile \/ End \/ UNCHANGED vars
    PROVE  FileInv'
  <1>1. CASE CreateDir
    BY <1>1, MaxRecordsPos DEF FileInv, FileTyped, Begun, Clean, CreateDir
  <1>2. CASE CreateFile
    BY <1>2, MaxRecordsPos DEF FileInv, FileTyped, Begun, Clean, CreateFile
  <1>3. CASE End
    BY <1>3, MaxRecordsPos DEF FileInv, FileTyped, Begun, Clean, End
  <1>4. CASE UNCHANGED vars
    BY <1>4, MaxRecordsPos DEF FileInv, FileTyped, Begun, Clean, vars
  <1> QED BY <1>1, <1>2, <1>3, <1>4

(* A confirmed append. *)
LEMMA FileInvRecord ==
    ASSUME FileInv, Record
    PROVE  FileInv'
  <1> USE DEF FileInv
  <1>1. tried \in Nat /\ tried < MaxRecords /\ tried' = tried + 1 /\ MaxRecords \in Nat
    BY MaxRecordsPos DEF FileTyped, Record, Appending
  <1>2. Append(tail, Whole(tried + 1)) \in Seq(Piece)
    BY <1>1 DEF FileTyped, Whole, Piece
  <1>3. FileTyped'
    <2>1. lines' \in Seq(Seq(Piece)) /\ tail' \in Seq(Piece)
      BY <1>2 DEF FileTyped, Record
    <2>2. tried' \in 0..MaxRecords
      BY <1>1
    <2>3. acked' \subseteq 1..tried'
      BY <1>1 DEF FileTyped, Record
    <2>4. careless' \in BOOLEAN /\ failed' \in BOOLEAN
      BY DEF FileTyped, Record, Appending
    <2> QED BY <2>1, <2>2, <2>3, <2>4 DEF FileTyped, Record
  <1>4. Begun'
    BY <1>1 DEF Begun, Record, Appending
  <1>5. ASSUME ~careless' PROVE Clean'
    <2>1. ~careless /\ ~failed
      BY <1>5 DEF Record, Appending, FileTyped
    <2>2. Clean /\ tail = <<>>
      BY <2>1 DEF Clean, Record, Appending
    <2>3. Append(tail, Whole(tried + 1)) = <<Whole(tried + 1)>>
      BY <2>2
    <2>4. lines' = Append(lines, <<Whole(tried + 1)>>) /\ tail' = <<>>
      BY <2>3 DEF Record
    <2>5. Rising(lines', tried')
      BY <1>1, <2>2, <2>4, RisingGrows DEF Clean, FileTyped
    <2>6. Follows(lines', tail', tried')
      BY <2>4 DEF Follows
    <2>7. Holds(lines', acked')
      <3>1. <<Whole(tried + 1)>>[1].id = tried + 1 /\ <<Whole(tried + 1)>> \in Seq(Piece)
        BY <1>2, <2>3 DEF Whole
      <3> QED BY <2>2, <2>4, <3>1, HoldsAppend DEF Clean, FileTyped, Record
    <2> QED BY <2>4, <2>5, <2>6, <2>7 DEF Clean
  <1> QED BY <1>3, <1>4, <1>5

(* An append that stops. *)
LEMMA FileInvStops ==
    ASSUME FileInv, RecordStops
    PROVE  FileInv'
  <1> USE DEF FileInv
  <1>1. tried \in Nat /\ tried < MaxRecords /\ tried' = tried + 1 /\ MaxRecords \in Nat
    BY MaxRecordsPos DEF FileTyped, RecordStops, Appending
  <1>2. /\ Append(tail, Part(tried + 1)) \in Seq(Piece)
        /\ Append(tail, Whole(tried + 1)) \in Seq(Piece)
    <2>1. Part(tried + 1) \in Piece /\ Whole(tried + 1) \in Piece
      BY <1>1 DEF Whole, Part, Piece
    <2> QED BY <2>1 DEF FileTyped
  <1>3. FileTyped'
    <2>1. lines' \in Seq(Seq(Piece)) /\ tail' \in Seq(Piece)
      <3>1. CASE UNCHANGED <<lines, tail>>
        BY <3>1 DEF FileTyped
      <3>2. CASE UNCHANGED lines /\ tail' \in {Append(tail, Part(tried + 1)), Append(tail, Whole(tried + 1))}
        BY <1>2, <3>2 DEF FileTyped
      <3>3. CASE lines' = Append(lines, Append(tail, Whole(tried + 1))) /\ tail' = <<>>
        BY <1>2, <3>3 DEF FileTyped
      <3> QED BY <3>1, <3>2, <3>3 DEF RecordStops
    <2>2. tried' \in 0..MaxRecords
      BY <1>1
    <2>3. acked' \subseteq 1..tried'
      BY <1>1 DEF FileTyped, RecordStops
    <2>4. careless' \in BOOLEAN /\ failed' \in BOOLEAN
      BY DEF FileTyped, RecordStops, Appending
    <2> QED BY <2>1, <2>2, <2>3, <2>4 DEF FileTyped, RecordStops
  <1>4. Begun'
    BY <1>1 DEF Begun, RecordStops, Appending
  <1>5. ASSUME ~careless' PROVE Clean'
    <2>1. ~careless /\ ~failed
      BY <1>5 DEF RecordStops, Appending, FileTyped
    <2>2. Clean /\ tail = <<>>
      BY <2>1 DEF Clean, RecordStops, Appending
    <2>3. /\ Append(tail, Whole(tried + 1)) = <<Whole(tried + 1)>>
          /\ Append(tail, Part(tried + 1)) = <<Part(tried + 1)>>
      BY <2>2
    <2>4. \/ lines' = lines /\ tail' \in {<<>>, <<Whole(tried + 1)>>, <<Part(tried + 1)>>}
          \/ lines' = Append(lines, <<Whole(tried + 1)>>) /\ tail' = <<>>
      BY <2>2, <2>3 DEF RecordStops
    <2>5. Rising(lines', tried') /\ Follows(lines', tail', tried')
      <3>1. CASE lines' = lines /\ tail' \in {<<>>, <<Whole(tried + 1)>>, <<Part(tried + 1)>>}
        BY <1>1, <2>2, <3>1, RisingGrows DEF Clean, FileTyped
      <3>2. CASE lines' = Append(lines, <<Whole(tried + 1)>>) /\ tail' = <<>>
        <4>1. Rising(lines', tried')
          BY <1>1, <2>2, <3>2, RisingGrows DEF Clean, FileTyped
        <4> QED BY <3>2, <4>1 DEF Follows
      <3> QED BY <2>4, <3>1, <3>2
    <2>6. Holds(lines', acked')
      <3>1. <<Whole(tried + 1)>> \in Seq(Piece) /\ acked' = acked
        BY <1>2, <2>3 DEF RecordStops
      <3> QED BY <2>2, <2>4, <3>1, HoldsAppend DEF Clean, FileTyped
    <2>7. pc' # "off" => failed'
      BY DEF RecordStops, Appending, FileTyped
    <2> QED BY <2>5, <2>6, <2>7 DEF Clean
  <1> QED BY <1>3, <1>4, <1>5

(* The repair: what parses gets its newline, what does not is cut off. *)
LEMMA FileInvOpen ==
    ASSUME FileInv, OpenExisting
    PROVE  FileInv'
  <1> USE DEF FileInv
  <1>1. tried \in Nat
    BY MaxRecordsPos DEF FileTyped
  <1>2. FileTyped'
    <2>1. lines' \in Seq(Seq(Piece)) /\ tail' \in Seq(Piece)
      <3>1. CASE Parses(tail)
        BY <3>1 DEF FileTyped, OpenExisting
      <3>2. CASE ~Parses(tail)
        BY <3>2 DEF FileTyped, OpenExisting
      <3> QED BY <3>1, <3>2
    <2> QED BY <2>1 DEF FileTyped, OpenExisting
  <1>3. Begun'
    <2>1. made = "file" /\ tried # 0
      BY DEF OpenExisting, ReadAccepts, Read, Begun, Parses
    <2> QED BY <2>1 DEF Begun, OpenExisting
  <1>4. ASSUME ~careless' PROVE Clean'
    <2>1. Clean
      BY <1>4 DEF OpenExisting
    <2>2. CASE Parses(tail)
      <3>1. tail # <<>> /\ lines' = Append(lines, tail) /\ tail' = <<>>
        <4>1. Len(tail) = 1 /\ Len(<<>>) = 0
          BY <2>2 DEF Parses
        <4>2. tail # <<>>
          BY <4>1
        <4> QED BY <2>2, <4>2 DEF OpenExisting
      <3>2. Rising(lines', tried')
        BY <1>1, <2>1, <2>2, <3>1, RisingAppend DEF Clean, Follows, FileTyped, OpenExisting
      <3>3. Holds(lines', acked')
        BY <2>1, <3>1, HoldsAppend DEF Clean, FileTyped, OpenExisting
      <3> QED BY <3>1, <3>2, <3>3 DEF Clean, Follows
    <2>3. CASE ~Parses(tail)
      BY <2>1, <2>3 DEF Clean, Follows, OpenExisting
    <2> QED BY <2>2, <2>3
  <1> QED BY <1>2, <1>3, <1>4

(* No step of a journal's processes spoils its file. *)
LEMMA FileInvNext ==
    ASSUME FileInv, [Next]_vars
    PROVE  FileInv'
  BY FileInvQuiet, FileInvRecord, FileInvStops, FileInvOpen DEF Next

(* For any number of processes and appends: a process that has seen no     *)
(* error appends behind a newline (ExecutionJournal::record after          *)
(* restore_line_boundary), and the ids rise from line to line.             *)
THEOREM FileInvariant == Spec => []FileInv
  <1>1. FileInv /\ [Next]_vars => FileInv'
    BY FileInvNext
  <1> QED BY <1>1, FileInvInit, PTL DEF Spec

-----------------------------------------------------------------------------
(* A file all of whose lines parse, whoever wrote it. *)

(* What parses was written on a line of its own. *)
LEMMA ParsesAlone ==
    ASSUME NEW tl \in Seq(Piece), NEW x \in Piece
    PROVE  /\ Parses(Append(tl, x)) => tl = <<>>
           /\ tl # <<>> => Append(tl, x) # <<>> /\ Append(tl, x)[1] = tl[1]
  <1>1. Len(tl) \in Nat /\ Len(Append(tl, x)) = Len(tl) + 1
    OBVIOUS
  <1>2. tl # <<>> => Len(tl) \in Nat \ {0}
    BY EmptySeq
  <1>3. Parses(Append(tl, x)) => tl = <<>>
    BY <1>1, <1>2 DEF Parses
  <1>4. tl # <<>> => Append(tl, x) # <<>> /\ Append(tl, x)[1] = tl[1]
    <2> SUFFICES ASSUME tl # <<>> PROVE Append(tl, x) # <<>> /\ Append(tl, x)[1] = tl[1]
      OBVIOUS
    <2>1. 1 \in 1..Len(tl)
      BY <1>2
    <2>2. Append(tl, x)[1] = tl[1]
      BY <2>1
    <2> QED BY <1>1, <2>2
  <1> QED BY <1>3, <1>4

(* A line added to others that are not all legible does not mend them. *)
LEMMA LegibleBefore ==
    ASSUME NEW ls \in Seq(Seq(Piece)), NEW x \in Seq(Piece),
           \A i \in DOMAIN Append(ls, x) : Parses(Append(ls, x)[i])
    PROVE  Parses(x) /\ \A i \in DOMAIN ls : Parses(ls[i])
  <1> DEFINE L == Append(ls, x)
  <1>1. /\ DOMAIN L = 1..(Len(ls) + 1) /\ DOMAIN ls = 1..Len(ls) /\ Len(ls) \in Nat
        /\ L[Len(ls) + 1] = x /\ \A i \in 1..Len(ls) : L[i] = ls[i]
    OBVIOUS
  <1>2. \A i \in DOMAIN L : Parses(L[i])
    OBVIOUS
  <1> HIDE DEF L
  <1>3. Len(ls) + 1 \in DOMAIN L /\ \A i \in DOMAIN ls : i \in DOMAIN L
    BY <1>1
  <1> QED BY <1>1, <1>2, <1>3

(* An append, by whatever process: a record written behind a fragment      *)
(* makes a line that does not parse.                                       *)
LEMMA SoundAppend ==
    ASSUME FileInv, Sound, Record \/ RecordStops
    PROVE  Sound'
  <1> SUFFICES ASSUME Legible' PROVE Exact'
    BY DEF Sound
  <1>1. /\ tried \in Nat /\ tried < MaxRecords /\ tried' = tried + 1
        /\ lines \in Seq(Seq(Piece)) /\ tail \in Seq(Piece)
        /\ Part(tried + 1) \in Piece /\ Whole(tried + 1) \in Piece
    BY MaxRecordsPos DEF FileInv, FileTyped, Record, RecordStops, Appending, Whole, Part, Piece
  <1>2. ASSUME lines' = Append(lines, Append(tail, Whole(tried + 1))), tail' = <<>>,
               acked' \subseteq acked \cup {tried + 1}
        PROVE  Exact'
    <2>1. Append(tail, Whole(tried + 1)) \in Seq(Piece)
      BY <1>1
    <2>2. Parses(Append(tail, Whole(tried + 1))) /\ Legible
      BY <1>1, <1>2, <2>1, LegibleBefore DEF Legible
    <2>3. Exact /\ Append(tail, Whole(tried + 1)) = <<Whole(tried + 1)>>
      <3>1. tail = <<>>
        BY <1>1, <2>2, ParsesAlone
      <3> QED BY <2>2, <3>1 DEF Sound
    <2>4. lines' = Append(lines, <<Whole(tried + 1)>>)
      BY <1>2, <2>3
    <2>5. Rising(lines', tried')
      BY <1>1, <2>3, <2>4, RisingGrows DEF Exact
    <2>6. Holds(lines', acked')
      <3>1. <<Whole(tried + 1)>>[1].id = tried + 1
        BY DEF Whole
      <3>2. Holds(Append(lines, <<Whole(tried + 1)>>), acked \cup {tried + 1})
        BY <1>1, <2>1, <2>3, <3>1, HoldsAppend DEF Exact
      <3> QED BY <1>2, <2>4, <3>2 DEF Holds
    <2> QED BY <1>2, <2>5, <2>6 DEF Exact, Begins
  <1>3. ASSUME lines' = lines, acked' = acked,
               \/ tail' = tail
               \/ \E piece \in {Part(tried + 1), Whole(tried + 1)} : tail' = Append(tail, piece)
        PROVE  Exact'
    <2>1. Exact
      BY <1>3 DEF Sound, Legible
    <2>2. /\ Rising(lines, tried + 1)
          /\ Follows(lines, <<Whole(tried + 1)>>, tried + 1)
          /\ Follows(lines, <<Part(tried + 1)>>, tried + 1)
      BY <1>1, <2>1, RisingGrows DEF Exact
    <2>3. Begins(lines, tail, tried + 1)
      BY <1>1, <2>1 DEF Exact, Begins
    <2>4. ASSUME NEW piece \in {Part(tried + 1), Whole(tried + 1)}
          PROVE  Begins(lines, Append(tail, piece), tried + 1)
      <3>0. piece \in Piece
        BY <1>1
      <3>1. CASE tail = <<>>
        <4>1. Append(tail, piece) = <<piece>> /\ <<piece>> # <<>>
          BY <3>1
        <4>2. Follows(lines, <<piece>>, tried + 1)
          BY <2>2
        <4> QED BY <4>1, <4>2 DEF Follows, Begins
      <3>2. CASE tail # <<>>
        <4>1. Append(tail, piece)[1] = tail[1]
          BY <1>1, <3>0, <3>2, ParsesAlone
        <4> QED BY <2>3, <3>2, <4>1 DEF Begins
      <3> QED BY <3>1, <3>2
    <2>5. Begins(lines, tail', tried + 1)
      BY <1>3, <2>3, <2>4
    <2> QED BY <1>1, <1>3, <2>1, <2>2, <2>5 DEF Exact
  <1>4. CASE Record
    BY <1>2, <1>4 DEF Record
  <1>5. CASE RecordStops
    BY <1>2, <1>3, <1>5 DEF RecordStops
  <1> QED BY <1>4, <1>5

(* The repair keeps it so. *)
LEMMA SoundOpen ==
    ASSUME FileInv, Sound, OpenExisting
    PROVE  Sound'
  <1>1. /\ tried \in Nat /\ lines \in Seq(Seq(Piece)) /\ tail \in Seq(Piece)
        /\ tried' = tried /\ acked' = acked /\ tail' = <<>>
    BY MaxRecordsPos DEF FileInv, FileTyped, OpenExisting
  <1>2. Exact
    BY DEF OpenExisting, ReadAccepts, Sound, Legible
  <1>3. CASE Parses(tail)
    <2>1. tail # <<>>
      <3>1. Len(tail) = 1 /\ Len(<<>>) = 0
        BY <1>3 DEF Parses
      <3> QED BY <3>1
    <2>2. lines' = Append(lines, tail)
      BY <1>3 DEF OpenExisting
    <2>3. Rising(lines', tried')
      BY <1>1, <1>2, <1>3, <2>1, <2>2, RisingAppend DEF Exact, Begins
    <2>4. Holds(lines', acked')
      BY <1>1, <1>2, <2>2, HoldsAppend DEF Exact
    <2> QED BY <1>1, <2>3, <2>4 DEF Sound, Exact, Begins
  <1>4. CASE ~Parses(tail)
    <2>1. lines' = lines
      BY <1>4 DEF OpenExisting
    <2> QED BY <1>1, <1>2, <2>1 DEF Sound, Exact, Begins
  <1> QED BY <1>3, <1>4

(* For any number of processes, also those that go on after an error       *)
(* returned by ExecutionJournal::record: lines that all parse hold every   *)
(* confirmed record.                                                       *)
THEOREM LegibleIsSound == Spec => []Sound
  <1>1. Init => Sound
    BY DEF Init, Sound, Exact, Rising, Begins, Holds
  <1>2. FileInv /\ Sound /\ [Next]_vars => Sound'
    <2> SUFFICES ASSUME FileInv, Sound, [Next]_vars PROVE Sound'
      OBVIOUS
    <2>1. CASE CreateDir \/ CreateFile \/ End \/ UNCHANGED vars
      <3>1. UNCHANGED <<lines, tail, tried, acked>>
        BY <2>1 DEF CreateDir, CreateFile, End, vars
      <3> QED BY <3>1 DEF Sound, Exact, Legible
    <2> QED BY <2>1, SoundAppend, SoundOpen DEF Next
  <1> QED BY <1>1, <1>2, FileInvariant, PTL DEF Spec

-----------------------------------------------------------------------------
(* What a reader is shown. *)
Shown == IF Parses(tail) THEN Append(lines, tail) ELSE lines

(* The lines a reader is shown rise too, and hold what was confirmed. *)
LEMMA ShownRises ==
    ASSUME FileInv, Exact
    PROVE  /\ Rising(Shown, tried) /\ Shown \in Seq(Seq(Piece)) /\ Holds(Shown, acked)
           /\ Read = [i \in DOMAIN Shown |-> Shown[i][1].id]
  <1>1. tried \in Nat /\ lines \in Seq(Seq(Piece)) /\ tail \in Seq(Piece)
    BY MaxRecordsPos DEF FileInv, FileTyped
  <1>2. Read = [i \in DOMAIN Shown |-> Shown[i][1].id]
    BY DEF Read, Shown
  <1>3. CASE Parses(tail)
    <2>1. Len(tail) = 1 /\ Len(<<>>) = 0
      BY <1>3 DEF Parses
    <2>2. tail # <<>>
      BY <2>1
    <2>3. Rising(Append(lines, tail), tried) /\ Append(lines, tail) \in Seq(Seq(Piece))
      BY <1>1, <1>3, <2>2, RisingAppend DEF Exact, Begins
    <2>4. Holds(Append(lines, tail), acked)
      BY <1>1, HoldsAppend DEF Exact
    <2>5. Shown = Append(lines, tail)
      BY <1>3 DEF Shown
    <2> QED BY <1>2, <2>3, <2>4, <2>5
  <1>4. CASE ~Parses(tail)
    <2>1. Shown = lines
      BY <1>4 DEF Shown
    <2> QED BY <1>1, <1>2, <2>1 DEF Exact
  <1> QED BY <1>3, <1>4

(* Read is a sequence of rising ids, with one for every confirmed record. *)
LEMMA ReadRises ==
    ASSUME FileInv, Exact
    PROVE  /\ Read \in Seq(Nat) /\ DOMAIN Read = DOMAIN Shown /\ Len(Read) = Len(Shown)
           /\ \A i \in DOMAIN Shown : Read[i] = Shown[i][1].id
           /\ \A i, j \in DOMAIN Read : i < j => Read[i] < Read[j]
           /\ acked \subseteq ToSet(Read)
  <1>1. /\ Rising(Shown, tried) /\ Shown \in Seq(Seq(Piece)) /\ Holds(Shown, acked)
        /\ Read = [i \in DOMAIN Shown |-> Shown[i][1].id]
    BY ShownRises
  <1>2. DOMAIN Shown = 1..Len(Shown) /\ Len(Shown) \in Nat
    BY <1>1
  <1>3. \A i \in DOMAIN Shown : Shown[i][1].id \in Nat
    BY <1>1 DEF Rising
  <1>4. Read \in Seq(Nat) /\ Len(Read) = Len(Shown) /\ DOMAIN Read = DOMAIN Shown
    BY <1>1, <1>2, <1>3
  <1>5. \A i \in DOMAIN Shown : Read[i] = Shown[i][1].id
    BY <1>1
  <1>6. \A i, j \in DOMAIN Read : i < j => Read[i] < Read[j]
    BY <1>1, <1>4, <1>5 DEF Rising
  <1>7. acked \subseteq ToSet(Read)
    BY <1>1, <1>4, <1>5 DEF Holds, ToSet
  <1> QED BY <1>4, <1>5, <1>6, <1>7

(* A file that no error spoilt is one whose lines are exact. *)
LEMMA CleanIsExact == Clean => Exact
  BY DEF Clean, Exact, Follows, Begins

(* A clean file with the Header in it is one that read_all accepts. *)
LEMMA CleanIsAccepted ==
    ASSUME FileInv, Clean, tried # 0, lines # <<>>
    PROVE  ReadAccepts
  BY DEF FileInv, Begun, Clean, Rising, ReadAccepts

(* Whatever a crash left behind, read_all accepts the journal and returns  *)
(* every record whose append was confirmed, in order and once.  A process  *)
(* that goes on after a failed append can only make it refuse the journal: *)
(* what read_all accepts lacks no confirmed record.                        *)
THEOREM ConfirmedIsReadable == Spec => []AckedReadable
  <1>1. FileInv /\ Sound => AckedReadable
    <2> SUFFICES ASSUME FileInv, Sound, 1 \in acked
                 PROVE  /\ ~careless => ReadAccepts
                        /\ ReadAccepts =>
                              /\ acked \subseteq ToSet(Read)
                              /\ \A i, j \in DOMAIN Read : i < j => Read[i] < Read[j]
      BY DEF AckedReadable
    <2>1. ASSUME ~careless PROVE ReadAccepts
      <3>1. Clean
        BY <2>1 DEF FileInv
      <3>2. lines # <<>>
        BY <3>1 DEF Clean, Holds
      <3>3. tried # 0
        BY <3>2 DEF FileInv, Begun
      <3> QED BY <3>1, <3>2, <3>3, CleanIsAccepted
    <2>2. ReadAccepts => Exact
      BY DEF ReadAccepts, Sound, Legible
    <2> QED BY <2>1, <2>2, ReadRises
  <1> QED BY <1>1, FileInvariant, LegibleIsSound, PTL

IdsOf(ls) == [i \in DOMAIN ls |-> ls[i][1].id]

(* A further line changes nothing of what the lines before it show. *)
LEMMA PrefixOfMore ==
    ASSUME NEW ls \in Seq(Seq(Piece)), NEW x \in Seq(Piece), x[1].id \in Nat,
           \A i \in DOMAIN ls : ls[i][1].id \in Nat
    PROVE  IsPrefix(IdsOf(ls), IdsOf(ls)) /\ IsPrefix(IdsOf(ls), IdsOf(Append(ls, x)))
  <1> DEFINE L == Append(ls, x)
             a == IdsOf(ls)
             b == IdsOf(L)
  <1>1. /\ DOMAIN ls = 1..Len(ls) /\ Len(ls) \in Nat /\ L \in Seq(Seq(Piece))
        /\ DOMAIN L = 1..(Len(ls) + 1) /\ L[Len(ls) + 1] = x
        /\ \A i \in 1..Len(ls) : L[i] = ls[i]
    OBVIOUS
  <1> HIDE DEF L
  <1>2. \A i \in DOMAIN L : L[i][1].id \in Nat
    <2>1. \A i \in DOMAIN L : i \in DOMAIN ls \/ i = Len(ls) + 1
      BY <1>1
    <2> QED BY <1>1, <2>1
  <1>3. a \in Seq(Nat) /\ Len(a) = Len(ls)
    BY <1>1 DEF IdsOf
  <1>4. b \in Seq(Nat) /\ Len(b) = Len(ls) + 1
    BY <1>1, <1>2 DEF IdsOf
  <1>5. \A i \in 1..Len(ls) : b[i] = a[i]
    <2>1. \A i \in 1..Len(ls) : i \in DOMAIN L
      BY <1>1
    <2> QED BY <1>1, <2>1 DEF IdsOf
  <1> HIDE DEF a, b
  <1>6. SubSeq(a, 1, Len(a)) = SubSeq(b, 1, Len(a))
    <2>1. SubSeq(a, 1, Len(a)) = [i \in 1..Len(ls) |-> a[i]]
      BY <1>1, <1>3
    <2>2. SubSeq(b, 1, Len(a)) = [i \in 1..Len(ls) |-> b[i]]
      BY <1>1, <1>3, <1>4
    <2> QED BY <1>5, <2>1, <2>2
  <1>7. IsPrefix(a, a) /\ IsPrefix(a, b)
    BY <1>1, <1>3, <1>4, <1>6 DEF IsPrefix
  <1> QED BY <1>7 DEF a, b, L

(* A step that nobody careless takes shows every reader at least what was  *)
(* shown before.                                                           *)
LEMMA ReadGrowsStep ==
    ASSUME FileInv, FileInv', [Next]_vars, ReadAccepts, Read # <<>>, ~careless'
    PROVE  ReadAccepts' /\ IsPrefix(Read, Read')
  <1>1. ~careless /\ made = "file" /\ ~CreateDir /\ ~CreateFile
    BY DEF FileInv, FileTyped, Next, CreateDir, CreateFile, Record, RecordStops, Appending,
           OpenExisting, End, vars, ReadAccepts
  <1>2. Clean /\ Clean'
    BY <1>1 DEF FileInv
  <1>3. Read = IdsOf(Shown) /\ Read' = IdsOf(Shown')
    BY DEF Read, Shown, IdsOf
  <1>4. /\ Shown \in Seq(Seq(Piece)) /\ \A i \in DOMAIN Shown : Shown[i][1].id \in Nat
    BY <1>2, CleanIsExact, ShownRises DEF Rising
  <1>5. Parses(<<>>) = FALSE
    BY DEF Parses
  <1>6. made' = "file" /\ \A i \in DOMAIN lines' : Parses(lines'[i])
    <2>1. made' = made
      BY <1>1 DEF Next, Record, RecordStops, OpenExisting, End, vars
    <2>2. Rising(lines', tried')
      BY <1>2 DEF Clean
    <2> QED BY <1>1, <2>1, <2>2 DEF Rising
  <1>7. /\ <<Whole(1)>> \in Seq(Piece) /\ <<Whole(1)>>[1].id \in Nat
    BY MaxRecordsPos DEF Whole, Piece
  <1>8. Shown' = Shown => IsPrefix(Read, Read')
    BY <1>3, <1>4, <1>7, PrefixOfMore
  <1>9. CASE End \/ UNCHANGED vars
    <2>1. UNCHANGED <<lines, tail, made>>
      BY <1>9 DEF End, vars
    <2>2. Shown' = Shown
      BY <2>1 DEF Shown
    <2>3. ReadAccepts'
      BY <2>1 DEF ReadAccepts
    <2> QED BY <1>8, <2>2, <2>3
  <1>10. CASE OpenExisting
    <2>1. lines' = Shown /\ tail' = <<>>
      BY <1>10 DEF OpenExisting, Shown
    <2>2. Shown' = Shown
      BY <1>5, <2>1 DEF Shown
    <2>3. ReadAccepts'
      BY <1>6, <2>1 DEF ReadAccepts
    <2> QED BY <1>8, <2>2, <2>3
  <1>11. CASE Record \/ RecordStops
    <2>1. /\ tried \in Nat /\ tried < MaxRecords /\ tried' = tried + 1 /\ ~failed /\ pc # "off"
          /\ lines \in Seq(Seq(Piece))
      BY <1>11, MaxRecordsPos DEF FileInv, FileTyped, Record, RecordStops, Appending
    <2>2. tail = <<>>
      BY <1>2, <2>1 DEF Clean
    <2>3. Shown = lines
      BY <1>5, <2>2 DEF Shown
    <2>4. lines # <<>>
      <3>1. SUFFICES ASSUME lines = <<>> PROVE FALSE
        OBVIOUS
      <3>2. Read \in Seq(Nat) /\ Len(Read) = Len(lines)
        BY <1>2, <2>3, CleanIsExact, ReadRises
      <3>3. Len(Read) = 0
        BY <3>1, <3>2
      <3>4. \A seq \in Seq(Nat) : seq # <<>> => Len(seq) \in Nat \ {0}
        BY EmptySeq
      <3>5. Len(Read) \in Nat \ {0}
        BY <3>2, <3>4
      <3> QED BY <3>3, <3>5
    <2> DEFINE w == <<Whole(tried + 1)>>
               q == <<Part(tried + 1)>>
    <2>5. Append(tail, Whole(tried + 1)) = w /\ Append(tail, Part(tried + 1)) = q
      BY <2>2
    <2>6. w \in Seq(Piece) /\ w[1].id \in Nat /\ Parses(w) /\ ~Parses(q)
      <3>1. Whole(tried + 1) \in Piece
        BY <2>1, MaxRecordsPos DEF Whole, Piece
      <3>2. Len(w) = 1 /\ w[1].whole = TRUE /\ w[1].id = tried + 1
        BY DEF Whole
      <3>3. q[1].whole = FALSE
        BY DEF Part
      <3> QED BY <2>1, <3>1, <3>2, <3>3 DEF Parses
    <2>7. \/ lines' = lines /\ tail' \in {<<>>, w, q}
          \/ lines' = Append(lines, w) /\ tail' = <<>>
      BY <1>11, <2>2, <2>5 DEF Record, RecordStops
    <2> HIDE DEF w, q
    <2>8. Append(lines, w) # <<>>
      <3>1. Len(Append(lines, w)) = Len(lines) + 1 /\ Len(lines) \in Nat /\ Len(<<>>) = 0
        BY <2>1, <2>6
      <3>2. Len(Append(lines, w)) # Len(<<>>)
        BY <3>1
      <3> QED BY <3>2
    <2>9. ReadAccepts'
      BY <1>6, <2>4, <2>7, <2>8 DEF ReadAccepts
    <2>10. Shown' \in {lines, Append(lines, w)}
      <3>1. CASE lines' = lines /\ tail' \in {<<>>, w, q}
        BY <1>5, <2>6, <3>1 DEF Shown
      <3>2. CASE lines' = Append(lines, w) /\ tail' = <<>>
        BY <1>5, <3>2 DEF Shown
      <3> QED BY <2>7, <3>1, <3>2
    <2>11. IsPrefix(IdsOf(lines), IdsOf(lines)) /\ IsPrefix(IdsOf(lines), IdsOf(Append(lines, w)))
      BY <1>4, <2>1, <2>3, <2>6, PrefixOfMore
    <2> QED BY <1>3, <2>3, <2>9, <2>10, <2>11
  <1> QED BY <1>1, <1>9, <1>10, <1>11 DEF Next

(* What read_all showed one reader it shows every later one: the repair of *)
(* the tail (restore_line_boundary) takes back no record.                  *)
THEOREM ReadersAgree == Spec => ReadOnlyGrows
  <1>1. FileInv /\ FileInv' /\ [Next]_vars
            => [ReadAccepts /\ Read # <<>> /\ ~careless'
                    => ReadAccepts' /\ IsPrefix(Read, Read')]_vars
    BY ReadGrowsStep
  <1> QED BY <1>1, FileInvariant, PTL DEF Spec, ReadOnlyGrows

-----------------------------------------------------------------------------
(* The event log. *)

(* The event log adds nothing to what the journal's processes may do: what *)
(* is proved of JournalFile holds beside it, whatever becomes of an event. *)
THEOREM LogKeepsJournal == LogSpec => Spec
  <1>1. LogInit => Init
    BY DEF LogInit
  <1>2. [LogNext]_allVars => [Next]_vars
    BY DEF LogNext, JournalStep, OpenEvents, Emit, EmitFails, ProcessEnds, Next, allVars
  <1> QED BY <1>1, <1>2, PTL DEF LogSpec, Spec

Entry == [id : 1..MaxRecords, seq : Nat \ {0}, whole : BOOLEAN]

LogTyped ==
    /\ elines \in Seq(Seq(Entry)) /\ etail \in Seq(Entry)
    /\ writer \in Nat /\ due \in 0..tried

(* The observer is told of a confirmed record, in a process with a log. *)
Telling ==
    /\ writer # 0 => pc = "open"
    /\ due # 0 => writer # 0 /\ due = tried /\ due \in acked

(* An event is of a confirmed record; the one now due has none yet. *)
From(x, ids, d, n) == x.id \in ids /\ x.id # d /\ x.id <= n
LineFrom(l, ids, d, n) == \A k \in DOMAIN l : From(l[k], ids, d, n)
AllFrom(els, ids, d, n) == \A i \in DOMAIN els : LineFrom(els[i], ids, d, n)

Told == AllFrom(elines, acked, due, tried) /\ LineFrom(etail, acked, due, tried)

(* Ended lines that parse are in order, and so is an unfinished one. *)
Before(x, y) == x.seq < y.seq /\ x.id < y.id
Ordered(els) ==
    \A i, j \in DOMAIN els :
        i < j /\ Parses(els[i]) /\ Parses(els[j]) => Before(els[i][1], els[j][1])
Ahead(els, x) ==
    Parses(x) => \A i \in DOMAIN els : Parses(els[i]) => Before(els[i][1], x[1])

InOrder == Ordered(elines) /\ Ahead(elines, etail)

(* The writer counts on from above every ended line. *)
Below(els, w) == \A i \in DOMAIN els : Parses(els[i]) => els[i][1].seq < w

Counting ==
    writer # 0 => Below(elines, writer) /\ (Parses(etail) => etail[1].seq <= writer)

LogInv == FileInv /\ LogTyped /\ Telling /\ Told /\ InOrder /\ Counting

(* One more line: what holds of the others and of it holds of all. *)
LEMMA LineAdded ==
    ASSUME NEW els \in Seq(Seq(Entry)), NEW x \in Seq(Entry)
    PROVE  /\ Append(els, x) \in Seq(Seq(Entry))
           /\ Ordered(els) /\ Ahead(els, x) => Ordered(Append(els, x))
           /\ \A w \in Nat : Below(els, w) /\ (Parses(x) => x[1].seq < w) => Below(Append(els, x), w)
           /\ \A ids, d, n : AllFrom(els, ids, d, n) /\ LineFrom(x, ids, d, n)
                                => AllFrom(Append(els, x), ids, d, n)
  <1> DEFINE L == Append(els, x)
  <1>1. /\ L \in Seq(Seq(Entry)) /\ DOMAIN L = 1..(Len(els) + 1) /\ DOMAIN els = 1..Len(els)
        /\ L[Len(els) + 1] = x /\ Len(els) \in Nat
        /\ \A i \in 1..Len(els) : L[i] = els[i]
    OBVIOUS
  <1> HIDE DEF L
  <1>2. /\ \A i \in DOMAIN L : i \in DOMAIN els \/ i = Len(els) + 1
        /\ \A i \in DOMAIN els : L[i] = els[i]
    BY <1>1
  <1>3. ASSUME NEW i \in DOMAIN L, NEW j \in DOMAIN L, i < j PROVE i \in DOMAIN els
    <2>1. i \in Nat /\ j \in Nat /\ 1 <= i /\ j <= Len(els) + 1
      BY <1>1
    <2> QED BY <1>1, <1>3, <2>1
  <1>4. ASSUME Ordered(els), Ahead(els, x) PROVE Ordered(L)
    <2> SUFFICES ASSUME NEW i \in DOMAIN L, NEW j \in DOMAIN L, i < j, Parses(L[i]), Parses(L[j])
                 PROVE  Before(L[i][1], L[j][1])
      BY DEF Ordered
    <2>1. i \in DOMAIN els
      BY <1>3
    <2>2. CASE j \in DOMAIN els
      BY <1>2, <1>4, <2>1, <2>2 DEF Ordered
    <2>3. CASE j = Len(els) + 1
      BY <1>1, <1>2, <1>4, <2>1, <2>3 DEF Ahead
    <2> QED BY <1>2, <2>2, <2>3
  <1>5. ASSUME NEW w \in Nat, Below(els, w), Parses(x) => x[1].seq < w PROVE Below(L, w)
    BY <1>1, <1>2, <1>5 DEF Below
  <1>6. ASSUME NEW ids, NEW d, NEW n, AllFrom(els, ids, d, n), LineFrom(x, ids, d, n)
        PROVE  AllFrom(L, ids, d, n)
    BY <1>1, <1>2, <1>6 DEF AllFrom
  <1> QED BY <1>1, <1>4, <1>5, <1>6 DEF L

(* One more piece on a line: it parses only as the first. *)
LEMMA PieceAdded ==
    ASSUME NEW tl \in Seq(Entry), NEW e \in Entry
    PROVE  /\ Append(tl, e) \in Seq(Entry)
           /\ Parses(Append(tl, e)) => tl = <<>> /\ Append(tl, e)[1] = e
           /\ \A ids, d, n : LineFrom(tl, ids, d, n) /\ From(e, ids, d, n)
                                => LineFrom(Append(tl, e), ids, d, n)
  <1> DEFINE L == Append(tl, e)
  <1>1. /\ L \in Seq(Entry) /\ DOMAIN L = 1..(Len(tl) + 1) /\ DOMAIN tl = 1..Len(tl)
        /\ L[Len(tl) + 1] = e /\ Len(tl) \in Nat /\ Len(L) = Len(tl) + 1
        /\ \A i \in 1..Len(tl) : L[i] = tl[i]
    OBVIOUS
  <1> HIDE DEF L
  <1>2. /\ \A i \in DOMAIN L : i \in DOMAIN tl \/ i = Len(tl) + 1
        /\ \A i \in DOMAIN tl : L[i] = tl[i]
    BY <1>1
  <1>3. ASSUME Parses(L) PROVE tl = <<>> /\ L[1] = e
    <2>1. Len(tl) = 0
      BY <1>1, <1>3 DEF Parses
    <2>2. tl # <<>> => Len(tl) \in Nat \ {0}
      BY EmptySeq
    <2> QED BY <1>1, <2>1, <2>2
  <1>4. ASSUME NEW ids, NEW d, NEW n, LineFrom(tl, ids, d, n), From(e, ids, d, n)
        PROVE  LineFrom(L, ids, d, n)
    BY <1>1, <1>2, <1>4 DEF LineFrom
  <1> QED BY <1>1, <1>3, <1>4 DEF L

(* A set of line numbers that is not empty has a last one. *)
LEMMA LastOf ==
    ASSUME NEW n \in Nat, NEW T, T \subseteq 1..n, T # {}
    PROVE  \E x \in T : \A y \in T : y <= x
  <1> DEFINE R == {ss \in Nat \X Nat : ss[1] < ss[2]}
             U == {n - t : t \in T}
  <1>1. IsWellFoundedOn(R, Nat)
    BY NatLessThanWellFounded DEF OpToRel
  <1>2. U \subseteq Nat /\ U # {}
    <2>1. \A t \in T : t \in 1..n
      OBVIOUS
    <2>2. \A t \in T : n - t \in Nat
      BY <2>1
    <2>3. PICK t \in T : TRUE
      OBVIOUS
    <2>4. n - t \in U
      BY <2>3
    <2> QED BY <2>2, <2>4
  <1>3. \A u, v \in U : <<v, u>> \in R <=> v < u
    BY <1>2
  <1> HIDE DEF R
  <1>4. PICK u \in U : \A v \in U : ~ (<<v, u>> \in R)
    BY <1>1, <1>2, WFMin
  <1>5. PICK x \in T : u = n - x
    BY <1>4
  <1>6. ASSUME NEW y \in T PROVE y <= x
    <2>1. n - y \in U /\ x \in Nat /\ y \in Nat
      OBVIOUS
    <2>2. ~ (n - y < n - x)
      BY <1>3, <1>4, <1>5, <2>1
    <2> QED BY <2>1, <2>2
  <1> QED BY <1>6

(* The next sequence number is above all that can be read. *)
LEMMA NextIsAbove ==
    ASSUME LogInv
    PROVE  /\ NextSequence \in Nat \ {0}
           /\ Below(elines, NextSequence) /\ (Parses(etail) => etail[1].seq < NextSequence)
  <1> DEFINE all == Append(elines, etail)
             T == {i \in DOMAIN all : Parses(all[i])}
             seqs == {e.seq : e \in ToSet(ReadEvents)}
  <1>1. elines \in Seq(Seq(Entry)) /\ etail \in Seq(Entry) /\ Ordered(elines) /\ Ahead(elines, etail)
    BY DEF LogInv, LogTyped, InOrder
  <1>2. /\ all \in Seq(Seq(Entry)) /\ DOMAIN all = 1..(Len(elines) + 1)
        /\ Len(elines) \in Nat /\ DOMAIN elines = 1..Len(elines)
        /\ all[Len(elines) + 1] = etail /\ \A i \in 1..Len(elines) : all[i] = elines[i]
    BY <1>1
  <1>3. Ordered(all)
    BY <1>1, LineAdded
  <1>4. ReadEvents = [i \in T |-> all[i][1]]
    BY DEF ReadEvents
  <1> HIDE DEF all
  <1>5. \A i \in T : i \in 1..(Len(elines) + 1) /\ all[i] \in Seq(Entry) /\ Parses(all[i])
    BY <1>2
  <1>6. \A i \in T : all[i][1] \in Entry
    BY <1>5 DEF Parses
  <1>7. \A i \in T : all[i][1].seq \in Nat \ {0}
    BY <1>6 DEF Entry
  <1>8. seqs = {all[i][1].seq : i \in T}
    BY <1>4 DEF ToSet
  <1>9. NextSequence = IF seqs = {} THEN 1 ELSE Max(seqs) + 1
    BY DEF NextSequence
  <1> HIDE DEF seqs
  <1>10. NextSequence \in Nat \ {0} /\ \A i \in T : all[i][1].seq < NextSequence
    <2>1. CASE T = {}
      BY <1>8, <1>9, <2>1
    <2>2. CASE T # {}
      <3>1. PICK x \in T : \A y \in T : y <= x
        <4>1. Len(elines) + 1 \in Nat /\ T \subseteq 1..(Len(elines) + 1)
          BY <1>2, <1>5
        <4> HIDE DEF T
        <4> QED BY <2>2, <4>1, LastOf
      <3>2. \A y \in T : y # x => y < x
        BY <1>2, <3>1
      <3>3. \A y \in T : all[y][1].seq <= all[x][1].seq
        <4> TAKE y \in T
        <4>1. CASE y = x
          BY <1>7, <4>1
        <4>2. CASE y # x
          <5>1. Before(all[y][1], all[x][1])
            BY <1>3, <1>5, <3>1, <3>2, <4>2 DEF Ordered
          <5> QED BY <1>7, <3>1, <5>1 DEF Before
        <4> QED BY <4>1, <4>2
      <3>4. all[x][1].seq \in seqs /\ \A z \in seqs : all[x][1].seq >= z /\ z \in Nat
        BY <1>7, <1>8, <3>1, <3>3
      <3>5. Max(seqs) \in seqs /\ \A z \in seqs : Max(seqs) >= z
        BY <3>4 DEF Max
      <3>6. seqs # {}
        BY <3>4
      <3>7. Max(seqs) \in Nat
        BY <3>4, <3>5
      <3>8. \A i \in T : all[i][1].seq \in seqs
        BY <1>8
      <3> QED BY <1>7, <1>9, <3>5, <3>6, <3>7, <3>8
    <2> QED BY <2>1, <2>2
  <1>11. Below(elines, NextSequence)
    <2> SUFFICES ASSUME NEW i \in DOMAIN elines, Parses(elines[i])
                 PROVE  elines[i][1].seq < NextSequence
      BY DEF Below
    <2>1. i \in DOMAIN all /\ all[i] = elines[i]
      BY <1>2
    <2> QED BY <1>10, <2>1
  <1>12. Parses(etail) => etail[1].seq < NextSequence
    <2>1. Len(elines) + 1 \in DOMAIN all
      BY <1>2
    <2> QED BY <1>2, <1>10, <2>1
  <1> QED BY <1>10, <1>11, <1>12

(* Before anything is written the log is as it should be. *)
LEMMA LogInvInit == LogInit => LogInv
  <1> SUFFICES ASSUME LogInit PROVE LogInv
    OBVIOUS
  <1>1. FileInv
    BY FileInvInit DEF LogInit
  <1>2. elines = <<>> /\ etail = <<>> /\ writer = 0 /\ due = 0 /\ ~Parses(<<>>)
    BY DEF LogInit, Parses
  <1>3. LogTyped
    <2>1. elines \in Seq(Seq(Entry)) /\ etail \in Seq(Entry)
      BY <1>2
    <2> QED BY <1>1, <1>2, <2>1, MaxRecordsPos DEF LogTyped, FileInv, FileTyped
  <1>4. DOMAIN elines = {} /\ DOMAIN etail = {}
    BY <1>2
  <1> QED BY <1>1, <1>2, <1>3, <1>4
          DEF LogInv, Telling, Told, AllFrom, LineFrom, InOrder, Ordered, Ahead, Counting

(* A record older than the one now due, and of a process that is gone, is  *)
(* told for good.                                                          *)
LEMMA FromLater ==
    ASSUME NEW els, NEW x, NEW ids, NEW d, NEW n \in Nat, NEW jds, NEW e, NEW m \in Nat,
           AllFrom(els, ids, d, n), LineFrom(x, ids, d, n), ids \subseteq jds, ids \subseteq Nat,
           n <= m, e \in {0, d} \/ e = n + 1, 0 \notin ids
    PROVE  AllFrom(els, jds, e, m) /\ LineFrom(x, jds, e, m)
  <1>1. ASSUME NEW y, From(y, ids, d, n) PROVE From(y, jds, e, m)
    <2>1. y.id \in Nat /\ y.id <= n /\ y.id # d /\ y.id # 0 /\ y.id \in jds
      BY <1>1 DEF From
    <2>2. y.id # e
      BY <2>1
    <2> QED BY <2>1, <2>2 DEF From
  <1> QED BY <1>1 DEF AllFrom, LineFrom

(* Steps of the journal. *)
LEMMA LogInvJournal ==
    ASSUME LogInv, JournalStep
    PROVE  LogInv'
  <1>1. FileInv'
    BY FileInvQuiet, FileInvRecord, FileInvStops, FileInvOpen DEF LogInv, JournalStep
  <1>2. /\ tried \in Nat /\ tried' \in Nat /\ tried <= tried'
        /\ acked \subseteq acked' /\ acked \subseteq Nat /\ 0 \notin acked
    <2>1. tried \in Nat /\ acked \subseteq 1..tried
      BY MaxRecordsPos DEF LogInv, FileInv, FileTyped
    <2> QED BY <2>1 DEF JournalStep, CreateDir, CreateFile, Record, RecordStops, OpenExisting, Appending
  <1>3. /\ UNCHANGED <<elines, etail>> /\ due = 0 /\ writer' \in {0, writer}
        /\ due' = 0 \/ (due' = tried + 1 /\ due' = tried' /\ due' \in acked' /\ writer' # 0)
    <2>1. tried \in Nat
      BY <1>2
    <2> QED BY <2>1 DEF JournalStep, evars, Record, Appending
  <1>4. LogTyped'
    BY <1>2, <1>3 DEF LogInv, LogTyped
  <1>5. Telling'
    <2>1. writer' # 0 => pc' = "open"
      BY DEF LogInv, Telling, JournalStep, evars, CreateDir, CreateFile, Record, RecordStops, OpenExisting,
             FileInv, FileTyped, Appending
    <2> QED BY <1>3, <2>1 DEF Telling
  <1>6. Told'
    BY <1>2, <1>3, FromLater DEF LogInv, Told
  <1>7. InOrder' /\ Counting'
    BY <1>3 DEF LogInv, InOrder, Counting
  <1> QED BY <1>1, <1>4, <1>5, <1>6, <1>7 DEF LogInv

(* JournalEventObserver::open. *)
LEMMA LogInvOpenEvents ==
    ASSUME LogInv, OpenEvents
    PROVE  LogInv'
  <1>1. FileInv' /\ UNCHANGED <<tried, acked, due, pc>>
    BY FileInvQuiet DEF LogInv, OpenEvents, vars
  <1>2. elines \in Seq(Seq(Entry)) /\ etail \in Seq(Entry)
    BY DEF LogInv, LogTyped
  <1>3. /\ elines' \in {elines, Append(elines, etail)} /\ etail' = <<>>
        /\ writer' = NextSequence /\ writer' \in Nat \ {0} /\ pc = "open" /\ due = 0
    BY NextIsAbove DEF OpenEvents
  <1>4. ~Parses(<<>>) /\ <<>> \in Seq(Entry) /\ DOMAIN <<>> = {}
    BY DEF Parses
  <1>5. Ordered(elines') /\ elines' \in Seq(Seq(Entry))
    BY <1>2, <1>3, LineAdded DEF LogInv, InOrder
  <1>6. AllFrom(elines', acked, due, tried)
    BY <1>2, <1>3, LineAdded DEF LogInv, Told
  <1>7. Below(elines', writer')
    <2>1. /\ Below(elines, writer') /\ (Parses(etail) => etail[1].seq < writer')
      BY <1>3, NextIsAbove
    <2> QED BY <1>2, <1>3, <2>1, LineAdded
  <1>8. LogTyped'
    BY <1>1, <1>3, <1>4, <1>5 DEF LogInv, LogTyped
  <1>9. Told'
    BY <1>1, <1>3, <1>4, <1>6 DEF Told, LineFrom
  <1>10. InOrder' /\ Counting'
    BY <1>3, <1>4, <1>5, <1>7 DEF InOrder, Ahead, Counting
  <1>11. Telling'
    BY <1>1, <1>3 DEF Telling
  <1> QED BY <1>1, <1>8, <1>9, <1>10, <1>11 DEF LogInv

(* The event now due is ahead of every line that parses. *)
LEMMA DueIsAhead ==
    ASSUME LogInv, due # 0, NEW b \in BOOLEAN
    PROVE  LET e == Event(due, writer, b) IN
           /\ e \in Entry /\ From(e, acked, 0, tried) /\ writer \in Nat \ {0}
           /\ \A i \in DOMAIN elines : Parses(elines[i]) => Before(elines[i][1], e)
  <1> DEFINE e == Event(due, writer, b)
  <1>1. /\ tried \in Nat /\ tried <= MaxRecords /\ due = tried /\ due \in acked /\ acked \subseteq 1..tried
        /\ writer \in Nat \ {0} /\ MaxRecords \in Nat
    BY MaxRecordsPos DEF LogInv, FileInv, FileTyped, LogTyped, Telling
  <1>2. due \in 1..MaxRecords /\ due \in Nat
    BY <1>1
  <1>3. e \in Entry /\ e.id = due /\ e.seq = writer
    BY <1>1, <1>2 DEF Event, Entry
  <1>4. From(e, acked, 0, tried)
    BY <1>1, <1>2, <1>3 DEF From
  <1> HIDE DEF e
  <1>5. ASSUME NEW i \in DOMAIN elines, Parses(elines[i]) PROVE Before(elines[i][1], e)
    <2>1. elines[i][1].seq < writer
      BY <1>1, <1>5 DEF LogInv, Counting, Below
    <2>2. elines[i] \in Seq(Entry)
      BY DEF LogInv, LogTyped
    <2>3. 1 \in DOMAIN elines[i]
      BY <1>5, <2>2 DEF Parses
    <2>4. From(elines[i][1], acked, due, tried)
      BY <2>3 DEF LogInv, Told, AllFrom, LineFrom
    <2>5. elines[i][1].id \in Nat /\ elines[i][1].id # due /\ elines[i][1].id <= tried
      <3>1. elines[i][1].id \in acked /\ elines[i][1].id # due /\ elines[i][1].id <= tried
        BY <2>4 DEF From
      <3>2. \A n \in acked : n \in Nat
        BY <1>1
      <3> QED BY <3>1, <3>2
    <2>6. elines[i][1].id < due
      BY <1>1, <2>5
    <2> QED BY <1>3, <2>1, <2>6 DEF Before
  <1> QED BY <1>1, <1>3, <1>4, <1>5 DEF e

Ending == \E b \in BOOLEAN : etail' = Append(etail, Event(due, writer, b)) /\ elines' = elines
Ended == elines' = Append(elines, Append(etail, Event(due, writer, TRUE))) /\ etail' = <<>>

(* However the write of an event ends. *)
LEMMA EventWritten ==
    ASSUME LogInv, acked' = acked, tried' = tried, due' = 0,
           \/ UNCHANGED <<elines, etail>>
           \/ due # 0 /\ (Ending \/ Ended)
    PROVE  /\ elines' \in Seq(Seq(Entry)) /\ etail' \in Seq(Entry)
           /\ Told' /\ InOrder'
           /\ due # 0 => /\ Below(elines', writer + 1)
                         /\ Parses(etail') => etail'[1].seq <= writer
                         /\ elines' = elines => Below(elines', writer)
  <1>1. /\ elines \in Seq(Seq(Entry)) /\ etail \in Seq(Entry) /\ writer \in Nat
        /\ Ordered(elines) /\ Ahead(elines, etail)
    BY DEF LogInv, LogTyped, InOrder
  <1>2. AllFrom(elines, acked, 0, tried) /\ LineFrom(etail, acked, 0, tried)
    <2>1. tried \in Nat /\ acked \subseteq Nat /\ 0 \notin acked
      BY MaxRecordsPos DEF LogInv, FileInv, FileTyped
    <2>2. AllFrom(elines, acked, due, tried) /\ LineFrom(etail, acked, due, tried)
      BY DEF LogInv, Told
    <2>3. tried <= tried /\ acked \subseteq acked
      BY <2>1
    <2> QED BY <2>1, <2>2, <2>3, FromLater
  <1>3. due # 0 => writer \in Nat \ {0} /\ Below(elines, writer)
                    /\ (Parses(etail) => etail[1].seq <= writer)
    BY <1>1 DEF LogInv, Telling, Counting
  <1>4. due # 0 => Below(elines, writer + 1)
    <2> SUFFICES ASSUME due # 0, NEW i \in DOMAIN elines, Parses(elines[i])
                 PROVE  elines[i][1].seq < writer + 1
      BY DEF Below
    <2>1. elines[i] \in Seq(Entry) /\ Len(elines[i]) = 1
      BY <1>1 DEF Parses
    <2>2. elines[i][1] \in Entry
      BY <2>1
    <2>3. elines[i][1].seq \in Nat /\ elines[i][1].seq < writer
      BY <1>3, <2>2 DEF Entry, Below
    <2> QED BY <1>1, <2>3
  <1>5. CASE UNCHANGED <<elines, etail>>
    BY <1>1, <1>2, <1>3, <1>4, <1>5 DEF Told, InOrder
  <1>6. CASE due # 0 /\ Ending
    <2>1. PICK b \in BOOLEAN : etail' = Append(etail, Event(due, writer, b)) /\ elines' = elines
      BY <1>6 DEF Ending
    <2> DEFINE e == Event(due, writer, b)
    <2>2. /\ e \in Entry /\ From(e, acked, 0, tried)
          /\ \A i \in DOMAIN elines : Parses(elines[i]) => Before(elines[i][1], e)
      BY <1>6, DueIsAhead
    <2>3. e.seq = writer
      BY DEF Event
    <2> HIDE DEF e
    <2>4. /\ Append(etail, e) \in Seq(Entry)
          /\ Parses(Append(etail, e)) => Append(etail, e)[1] = e
          /\ LineFrom(Append(etail, e), acked, 0, tried)
      BY <1>1, <1>2, <2>2, PieceAdded
    <2>5. etail' = Append(etail, e)
      BY <2>1 DEF e
    <2>6. Told'
      BY <1>2, <2>1, <2>4, <2>5 DEF Told
    <2>7. InOrder'
      BY <1>1, <2>1, <2>2, <2>4, <2>5 DEF InOrder, Ahead
    <2> QED BY <1>1, <1>3, <1>4, <1>6, <2>1, <2>3, <2>4, <2>5, <2>6, <2>7
  <1>7. CASE due # 0 /\ Ended
    <2> DEFINE e == Event(due, writer, TRUE)
               l == Append(etail, e)
    <2>2. /\ e \in Entry /\ From(e, acked, 0, tried)
          /\ \A i \in DOMAIN elines : Parses(elines[i]) => Before(elines[i][1], e)
      BY <1>7, DueIsAhead
    <2>3. e.seq = writer
      BY DEF Event
    <2>4. elines' = Append(elines, l) /\ etail' = <<>>
      BY <1>7 DEF Ended
    <2> HIDE DEF e
    <2>5. l \in Seq(Entry) /\ (Parses(l) => l[1] = e) /\ LineFrom(l, acked, 0, tried)
      BY <1>1, <1>2, <2>2, PieceAdded
    <2> HIDE DEF l
    <2>6. Ahead(elines, l)
      BY <2>2, <2>5 DEF Ahead
    <2>7. Parses(l) => l[1].seq < writer + 1
      BY <1>1, <2>3, <2>5
    <2>8. elines' \in Seq(Seq(Entry)) /\ Ordered(elines') /\ AllFrom(elines', acked, 0, tried)
      BY <1>1, <1>2, <2>4, <2>5, <2>6, LineAdded
    <2>9. Below(elines', writer + 1)
      <3>1. writer + 1 \in Nat
        BY <1>1
      <3> QED BY <1>1, <1>4, <1>7, <2>4, <2>5, <2>7, <3>1, LineAdded
    <2>10. ~Parses(<<>>) /\ <<>> \in Seq(Entry) /\ DOMAIN <<>> = {}
      BY DEF Parses
    <2>11. elines' # elines
      <3>1. Len(elines') = Len(elines) + 1 /\ Len(elines) \in Nat
        BY <1>1, <2>4, <2>5
      <3>2. Len(elines') # Len(elines)
        BY <3>1
      <3> QED BY <3>2
    <2>12. Told' /\ InOrder'
      BY <2>4, <2>8, <2>10 DEF Told, LineFrom, InOrder, Ahead
    <2> QED BY <2>4, <2>8, <2>9, <2>10, <2>11, <2>12
  <1> QED BY <1>5, <1>6, <1>7

(* The steps that write an event, whole or not, or end the process. *)
LEMMA LogInvEvents ==
    ASSUME LogInv, Emit \/ EmitFails \/ ProcessEnds
    PROVE  LogInv'
  <1>1. FileInv'
    BY FileInvQuiet DEF LogInv, Emit, EmitFails, ProcessEnds
  <1>2. acked' = acked /\ tried' = tried /\ due' = 0
    BY DEF Emit, EmitFails, ProcessEnds, End, vars
  <1>3. UNCHANGED <<elines, etail>> \/ (due # 0 /\ (Ending \/ Ended))
    BY DEF Emit, EmitFails, ProcessEnds, Ending, Ended
  <1>4. writer \in Nat /\ tried \in Nat
    BY MaxRecordsPos DEF LogInv, LogTyped, FileInv, FileTyped
  <1>5. /\ elines' \in Seq(Seq(Entry)) /\ etail' \in Seq(Entry) /\ Told' /\ InOrder'
        /\ due # 0 => /\ Below(elines', writer + 1)
                      /\ Parses(etail') => etail'[1].seq <= writer
                      /\ elines' = elines => Below(elines', writer)
    BY <1>2, <1>3, EventWritten
  <1>6. CASE Emit
    <2>1. writer' = writer + 1 /\ etail' = <<>> /\ due # 0 /\ pc' = pc
      BY <1>6 DEF Emit, vars
    <2>2. pc = "open"
      BY <2>1 DEF LogInv, Telling
    <2>3. ~Parses(<<>>) /\ writer + 1 \in Nat
      BY <1>4 DEF Parses
    <2>4. LogTyped' /\ Telling'
      BY <1>2, <1>4, <1>5, <2>1, <2>2, <2>3 DEF LogTyped, Telling
    <2>5. Counting'
      BY <1>5, <2>1, <2>3 DEF Counting
    <2> QED BY <1>1, <1>5, <2>4, <2>5 DEF LogInv
  <1>7. CASE EmitFails
    <2>1. writer' = writer /\ elines' = elines /\ due # 0 /\ pc' = pc
      BY <1>7 DEF EmitFails, vars
    <2>2. pc = "open"
      BY <2>1 DEF LogInv, Telling
    <2>3. LogTyped' /\ Telling'
      BY <1>2, <1>4, <1>5, <2>1, <2>2 DEF LogTyped, Telling
    <2>4. Counting'
      BY <1>5, <2>1 DEF Counting
    <2> QED BY <1>1, <1>5, <2>3, <2>4 DEF LogInv
  <1>8. CASE ProcessEnds
    <2>1. writer' = 0
      BY <1>8 DEF ProcessEnds
    <2>2. LogTyped' /\ Telling' /\ Counting'
      BY <1>2, <1>4, <1>5, <2>1 DEF LogTyped, Telling, Counting
    <2> QED BY <1>1, <1>5, <2>2 DEF LogInv
  <1> QED BY <1>6, <1>7, <1>8

(* For any number of appends, processes and torn writes: every event is of *)
(* a confirmed record, and JsonlEventWriter counts on from above every     *)
(* line that is ended.                                                     *)
THEOREM LogInvariant == LogSpec => []LogInv
  <1>1. LogInv /\ [LogNext]_allVars => LogInv'
    <2> SUFFICES ASSUME LogInv, [LogNext]_allVars PROVE LogInv'
      OBVIOUS
    <2>1. CASE UNCHANGED allVars
      <3>1. FileInv'
        BY <2>1, FileInvQuiet DEF LogInv, allVars
      <3> QED BY <2>1, <3>1 DEF LogInv, LogTyped, Telling, Told, InOrder, Counting, allVars, vars, evars
    <2> QED BY <2>1, LogInvJournal, LogInvOpenEvents, LogInvEvents DEF LogNext
  <1> QED BY <1>1, LogInvInit, PTL DEF LogSpec

(* Over any number of processes, torn writes and lost ends the readable    *)
(* events have rising sequence numbers, follow the order of the records,   *)
(* and are of records that a reader of the journal finds there.            *)
THEOREM EventsAlwaysInOrder == LogSpec => []EventsInOrder
  <1>1. LogInv => EventsInOrder
    <2> SUFFICES ASSUME LogInv PROVE EventsInOrder
      OBVIOUS
    <2> DEFINE all == Append(elines, etail)
               T == {i \in DOMAIN all : Parses(all[i])}
    <2>1. elines \in Seq(Seq(Entry)) /\ etail \in Seq(Entry)
      BY DEF LogInv, LogTyped
    <2>2. Ordered(all) /\ AllFrom(all, acked, due, tried) /\ all \in Seq(Seq(Entry))
      BY <2>1, LineAdded DEF LogInv, InOrder, Told
    <2>3. ReadEvents = [i \in T |-> all[i][1]]
      BY DEF ReadEvents
    <2> HIDE DEF all
    <2>4. \A i, j \in DOMAIN ReadEvents : i < j =>
              ReadEvents[i].seq < ReadEvents[j].seq /\ ReadEvents[i].id < ReadEvents[j].id
      BY <2>2, <2>3 DEF Ordered, Before
    <2>5. ASSUME ~careless, NEW i \in T PROVE all[i][1].id \in ToSet(Read)
      <3>1. Clean
        BY <2>5 DEF LogInv, FileInv
      <3>2. acked \subseteq ToSet(Read)
        BY <3>1, CleanIsExact, ReadRises DEF LogInv
      <3>3. all[i] \in Seq(Entry) /\ Len(all[i]) = 1
        BY <2>2 DEF Parses
      <3>4. 1 \in DOMAIN all[i]
        BY <3>3
      <3>5. all[i][1].id \in acked
        BY <2>2, <3>4 DEF AllFrom, LineFrom, From
      <3> QED BY <3>2, <3>5
    <2>6. {e.id : e \in ToSet(ReadEvents)} = {all[i][1].id : i \in T}
      BY <2>3 DEF ToSet
    <2> QED BY <2>4, <2>5, <2>6 DEF EventsInOrder
  <1> QED BY <1>1, LogInvariant, PTL
=============================================================================
