---------------------------- MODULE LoggerProofs ----------------------------
(***************************************************************************)
(* What the races on the log cannot do, for any number of threads, whatever*)
(* they log and however their steps are interleaved.                       *)
(***************************************************************************)
EXTENDS Logger, SequenceLemmas, TLAPS

-----------------------------------------------------------------------------
(* The inductive invariant.                                                *)

AllLines == Threads \X Nat
Texts == {"prefix", "message", "end"}
Pieces == [line : AllLines, text : Texts, time : AllLines \cup {<<>>}]
Parts == Pieces \cup {Nothing}

TypesInv ==
    /\ pc \in [Threads -> {"idle", "copy", "move", "screen", "write", "reset"}]
    /\ done \in [Threads -> Nat]
    /\ tm \in AllLines \cup {<<>>}
    /\ piece \in [Threads -> Texts \cup {"none"}]
    /\ seen \in [Threads -> Nat] /\ pptr \in Nat
    /\ DOMAIN area \subseteq Nat /\ \A i \in DOMAIN area : area[i] \in Pieces
    /\ file \in Seq(Parts)

\* Only in these places has a thread a piece to insert.
PieceInv == \A t \in Threads : pc[t] \in {"copy", "move", "screen"} <=> piece[t] # "none"

IsOf(part, l) == part # Nothing /\ part.line = l

\* The lines whose call has begun: only of these something is written.
Begun == {l \in AllLines : l[2] <= done[l[1]] \/ (pc[l[1]] # "idle" /\ l = Line(l[1]))}

PastInv ==
    /\ \A i \in DOMAIN file : file[i] # Nothing => file[i].line \in Begun
    /\ \A i \in DOMAIN area : area[i].line \in Begun

\* How many pieces of its line a thread has inserted.
Inserted(t) ==
    CASE piece[t] = "prefix"  -> 0
      [] piece[t] = "message" -> 1
      [] piece[t] = "end"     -> 2
      [] piece[t] = "none"    -> 3

\* The first place where a part of the line stands is the whole line.
InFile(l) ==
    \E k \in DOMAIN file :
        /\ k + 2 \in DOMAIN file /\ \A j \in 1..3 : file[k + (j - 1)] = WholeLine(l)[j]
        /\ \A i \in 1..(k - 1) : ~IsOf(file[i], l)

\* The stream as it is for a thread that found it empty and has it alone.
Undisturbed(t) ==
    IF pc[t] = "reset" THEN InFile(Line(t))
    ELSE /\ pptr = Inserted(t)
         /\ \A j \in 1..Inserted(t) : j \in DOMAIN area /\ area[j] = WholeLine(Line(t))[j]
         /\ pc[t] = "copy" /\ piece[t] = "prefix" => tm = Line(t)
         /\ pc[t] = "move" =>
              /\ seen[t] = pptr
              /\ pptr + 1 \in DOMAIN area
              /\ area[pptr + 1] = WholeLine(Line(t))[pptr + 1]
         /\ \A i \in DOMAIN file : ~IsOf(file[i], Line(t))

\* A line that is not mixed has the stream for itself.
AloneInv ==
    \A t \in Threads : pc[t] # "idle" /\ Line(t) \notin mixed =>
        Others(t) = {} /\ Undisturbed(t)

LoggedInv ==
    \A t \in Threads, k \in Nat \ {0} : k <= done[t] /\ <<t, k>> \notin mixed => InFile(<<t, k>>)

LogInv ==
    /\ TypesInv /\ PieceInv /\ PastInv /\ AloneInv /\ LoggedInv /\ NothingKeptBack

-----------------------------------------------------------------------------
(* What stands in the file.                                                *)

(* What stands where after chunk is written.                               *)
LEMMA AppendedPlaces ==
    ASSUME NEW S, NEW f \in Seq(S), NEW chunk \in Seq(S)
    PROVE  /\ DOMAIN f = 1..Len(f) /\ Len(f) \in Nat
           /\ DOMAIN chunk = 1..Len(chunk) /\ Len(chunk) \in Nat
           /\ DOMAIN (f \o chunk) = 1..(Len(f) + Len(chunk))
           /\ \A i \in DOMAIN f : (f \o chunk)[i] = f[i]
           /\ \A j \in 1..Len(chunk) : (f \o chunk)[Len(f) + j] = chunk[j]
BY ConcatPlaces

(* A file that grows at its end keeps the first place of every line.       *)
LEMMA InFileKept ==
    ASSUME file \in Seq(Parts), NEW chunk \in Seq(Parts),
           file' = file \o chunk, NEW l, InFile(l)
    PROVE  InFile(l)'
<1>1. /\ DOMAIN file = 1..Len(file) /\ Len(file) \in Nat
      /\ \A i \in DOMAIN file : i \in DOMAIN file' /\ file'[i] = file[i]
    BY ConcatPlaces
<1>2. PICK k \in DOMAIN file :
        /\ k + 2 \in DOMAIN file /\ \A j \in 1..3 : file[k + (j - 1)] = WholeLine(l)[j]
        /\ \A i \in 1..(k - 1) : ~IsOf(file[i], l)
    BY DEF InFile
<1>3. \A i \in 1..(k + 2) : i \in DOMAIN file
    BY <1>1, <1>2
<1>4. k + 2 \in DOMAIN file' /\ k \in DOMAIN file' /\ k \in Nat
    BY <1>1, <1>2
<1>5. \A j \in 1..3 : file'[k + (j - 1)] = WholeLine(l)[j]
    <2>1. TAKE j \in 1..3
    <2>2. k + (j - 1) \in 1..(k + 2)
        BY <1>4
    <2>3. QED BY <1>1, <1>2, <1>3, <2>2
<1>6. \A i \in 1..(k - 1) : ~IsOf(file'[i], l)
    <2>1. TAKE i \in 1..(k - 1)
    <2>2. i \in 1..(k + 2)
        BY <1>4
    <2>3. QED BY <1>1, <1>2, <1>3, <2>2
<1>7. QED BY <1>4, <1>5, <1>6 DEF InFile, WholeLine, Piece

(* A file that stays as it is keeps them too.                              *)
LEMMA InFileSame ==
    ASSUME file' = file, NEW l
    PROVE  InFile(l) => InFile(l)'
BY DEF InFile, WholeLine, Piece

(* A line that was not in the file and is appended alone is in it.         *)
LEMMA InFileNow ==
    ASSUME file \in Seq(Parts), NEW l \in AllLines, NEW chunk \in Seq(Parts),
           DOMAIN chunk = 1..3, \A j \in 1..3 : chunk[j] = WholeLine(l)[j],
           file' = file \o chunk,
           \A i \in DOMAIN file : ~IsOf(file[i], l)
    PROVE  InFile(l)'
<1>1. /\ DOMAIN file = 1..Len(file) /\ Len(file) \in Nat /\ DOMAIN chunk = 1..3
      /\ DOMAIN file' = 1..(Len(file) + 3)
      /\ \A i \in DOMAIN file : file'[i] = file[i]
      /\ \A j \in 1..3 : file'[Len(file) + j] = chunk[j]
    <2>1. /\ DOMAIN file = 1..Len(file) /\ Len(file) \in Nat
          /\ DOMAIN chunk = 1..Len(chunk) /\ Len(chunk) \in Nat
        BY LenProperties
    <2>0. DOMAIN (file \o chunk) = 1..(Len(file) + Len(chunk))
        BY AppendedPlaces
    <2>2. \A i \in DOMAIN file : (file \o chunk)[i] = file[i]
        BY AppendedPlaces
    <2>3. \A j \in 1..Len(chunk) : (file \o chunk)[Len(file) + j] = chunk[j]
        BY AppendedPlaces
    <2>4. Len(chunk) = 3
        BY <2>1
    <2>5. QED BY <2>0, <2>1, <2>2, <2>3, <2>4
<1> DEFINE k == Len(file) + 1
<1>2. k \in DOMAIN file' /\ k + 2 \in DOMAIN file'
    BY <1>1
<1>3. \A j \in 1..3 : file'[k + (j - 1)] = WholeLine(l)[j]
    <2>1. TAKE j \in 1..3
    <2>2. k + (j - 1) = Len(file) + j
        BY <1>1
    <2>3. QED BY <1>1, <2>2
<1>4. \A i \in 1..(k - 1) : ~IsOf(file'[i], l)
    <2>1. 1..(k - 1) = DOMAIN file
        BY <1>1
    <2>2. QED BY <1>1, <2>1
<1> HIDE DEF k
<1>5. QED BY <1>2, <1>3, <1>4 DEF InFile, WholeLine, Piece

(* The three parts of a line are three different pieces of it.             *)
LEMMA PartsOfLine ==
    ASSUME NEW l \in AllLines
    PROVE  /\ WholeLine(l)[1] = Piece(l, "prefix", l)
           /\ WholeLine(l)[2] = Piece(l, "message", l)
           /\ WholeLine(l)[3] = Piece(l, "end", l)
           /\ \A j \in 1..3 : WholeLine(l)[j] \in Pieces /\ IsOf(WholeLine(l)[j], l)
<1>1. \A x \in Texts : Piece(l, x, l) \in Pieces /\ IsOf(Piece(l, x, l), l)
    BY DEF Piece, Pieces, IsOf, Texts, Nothing
<1>2. QED BY <1>1 DEF WholeLine, Texts

(* What follows a piece is a place where a thread is logging.              *)
LEMMA FollowingFacts ==
    ASSUME TypesInv, PieceInv, NEW t \in Threads, pc[t] = "move"
    PROVE  /\ piece[t] \in Texts
           /\ Following(t)[1] \in {"copy", "screen", "write"}
           /\ Following(t)[2] \in Texts \cup {"none"}
           /\ Following(t)[1] \in {"copy", "screen"} <=> Following(t)[2] # "none"
<1>1. piece[t] \in Texts
    BY DEF TypesInv, PieceInv
<1>2. QED BY <1>1 DEF Following, Texts

-----------------------------------------------------------------------------
(* The types.                                                              *)

(* What a flush writes: a part for each place before the put position.     *)
LEMMA BufferedFacts ==
    ASSUME TypesInv
    PROVE  Buffered \in Seq(Parts) /\ Len(Buffered) = pptr
<1>1. \A i \in 1..pptr : (IF i \in DOMAIN area THEN area[i] ELSE Nothing) \in Parts
    BY DEF TypesInv, Parts
<1>2. pptr \in Nat
    BY DEF TypesInv
<1>3. Buffered \in [1..pptr -> Parts]
    BY <1>1 DEF Buffered
<1>4. Buffered \in Seq(Parts)
    BY <1>2, <1>3
<1>5. Len(Buffered) \in Nat /\ DOMAIN Buffered = 1..Len(Buffered) /\ DOMAIN Buffered = 1..pptr
    BY <1>3, <1>4, LenProperties
<1>6. \A m, n \in Nat : 1..m = 1..n => m = n
    OBVIOUS
<1>7. QED BY <1>2, <1>4, <1>5, <1>6, Zenon

(* Every step keeps the types.                                             *)
LEMMA TypesStep ==
    ASSUME TypesInv, PieceInv, NEW t \in Threads,
           Begin(t) \/ Copy(t) \/ Move(t) \/ Screen(t) \/ Flush(t) \/ Reset(t)
    PROVE  TypesInv'
<1>0. Line(t) \in AllLines
    BY DEF TypesInv, Line, AllLines
<1>1. CASE Begin(t)
    BY <1>0, <1>1 DEF Begin, Goes, TypesInv, Texts
<1>2. CASE Copy(t)
    <2>1. /\ pc' = [pc EXCEPT ![t] = "move"] /\ seen' = [seen EXCEPT ![t] = pptr]
          /\ UNCHANGED <<done, tm, piece, pptr, file, mixed>> /\ pc[t] = "copy"
        BY <1>2 DEF Copy, Goes
    <2> DEFINE copied == Piece(Line(t), piece[t], IF piece[t] = "prefix" THEN tm ELSE Line(t))
    <2>2. area' = [i \in DOMAIN area \cup {pptr + 1} |-> IF i = pptr + 1 THEN copied ELSE area[i]]
        BY <1>2 DEF Copy
    <2>3. copied \in Pieces
        <3>1. piece[t] \in Texts
            BY <2>1 DEF TypesInv, PieceInv
        <3>2. (IF piece[t] = "prefix" THEN tm ELSE Line(t)) \in AllLines \cup {<<>>}
            BY <1>0 DEF TypesInv
        <3>3. QED BY <1>0, <3>1, <3>2 DEF Piece, Pieces
    <2> HIDE DEF copied
    <2>4. DOMAIN area' \subseteq Nat /\ \A i \in DOMAIN area' : area'[i] \in Pieces
        BY <2>2, <2>3 DEF TypesInv
    <2>5. QED BY <2>1, <2>4 DEF TypesInv
<1>3. CASE Move(t)
    <2>1. /\ pc' = [pc EXCEPT ![t] = Following(t)[1]]
          /\ piece' = [piece EXCEPT ![t] = Following(t)[2]]
          /\ seen' = [seen EXCEPT ![t] = 0]
          /\ UNCHANGED <<done, tm, area, file, mixed>> /\ pc[t] = "move"
        BY <1>3 DEF Move, Goes
    <2>2. pptr' \in Nat
        BY <1>3 DEF Move, TypesInv
    <2>3. /\ Following(t)[1] \in {"copy", "screen", "write"}
          /\ Following(t)[2] \in Texts \cup {"none"}
        BY <2>1, FollowingFacts
    <2>4. QED BY <2>1, <2>2, <2>3 DEF TypesInv
<1>4. CASE Screen(t)
    BY <1>0, <1>4 DEF Screen, Goes, TypesInv
<1>5. CASE Flush(t)
    <2>1. file' \in Seq(Parts)
        BY <1>5, BufferedFacts, ConcatPlaces DEF Flush, TypesInv
    <2>2. QED BY <1>5, <2>1 DEF Flush, Goes, TypesInv
<1>6. CASE Reset(t)
    BY <1>6 DEF Reset, Goes, TypesInv
<1>7. QED BY <1>1, <1>2, <1>3, <1>4, <1>5, <1>6

-----------------------------------------------------------------------------
(* What is written is of calls that have begun.                            *)

(* The lines whose call has begun, now and after a step.                   *)
LEMMA PastIs ==
    ASSUME NEW l \in AllLines
    PROVE  /\ l[1] \in Threads /\ l[2] \in Nat
           /\ l \in Begun <=>
                \/ l[2] <= done[l[1]]
                \/ (pc[l[1]] # "idle" /\ l[2] = done[l[1]] + 1)
           /\ l \in Begun' <=>
                \/ l[2] <= done'[l[1]]
                \/ (pc'[l[1]] # "idle" /\ l[2] = done'[l[1]] + 1)
<1>1. PICK u \in Threads, k \in Nat : l = <<u, k>>
    BY DEF AllLines
<1>2. l[1] = u /\ l[2] = k
    BY <1>1
<1>3. /\ l = Line(l[1]) <=> l[2] = done[l[1]] + 1
      /\ (l = Line(l[1]))' <=> l[2] = done'[l[1]] + 1
    BY <1>1, <1>2 DEF Line
<1>4. l \in Begun <=> l[2] <= done[l[1]] \/ (pc[l[1]] # "idle" /\ l = Line(l[1]))
    BY DEF Begun
<1>5. l \in Begun' <=> l[2] <= done'[l[1]] \/ (pc'[l[1]] # "idle" /\ (l = Line(l[1]))')
    BY DEF Begun, AllLines
<1>6. l[1] \in Threads /\ l[2] \in Nat
    BY <1>2
<1>7. QED BY <1>3, <1>4, <1>5, <1>6

(* Once a call has begun, it has.                                          *)
LEMMA PastKept ==
    ASSUME TypesInv, PieceInv, NEW t \in Threads, NEW l \in Begun,
           Begin(t) \/ Copy(t) \/ Move(t) \/ Screen(t) \/ Flush(t) \/ Reset(t)
    PROVE  l \in Begun'
<1>0. l \in AllLines
    BY DEF Begun
<1>1. /\ l[1] \in Threads /\ l[2] \in Nat
      /\ l[2] <= done[l[1]] \/ (pc[l[1]] # "idle" /\ l[2] = done[l[1]] + 1)
    BY <1>0, PastIs
<1>2. CASE Reset(t)
    <2>1. pc' = [pc EXCEPT ![t] = "idle"] /\ done' = [done EXCEPT ![t] = done[t] + 1]
        BY <1>2 DEF Reset, Goes
    <2>2. CASE l[1] = t
        <3>1. done'[t] = done[t] + 1 /\ done[t] \in Nat
            BY <2>1 DEF TypesInv
        <3>2. QED BY <1>0, <1>1, <2>2, <3>1, PastIs
    <2>3. CASE l[1] # t
        <3>1. done'[l[1]] = done[l[1]] /\ pc'[l[1]] = pc[l[1]]
            BY <1>1, <2>1, <2>3 DEF TypesInv
        <3>2. QED BY <1>0, <1>1, <3>1, PastIs
    <2>4. QED BY <2>2, <2>3
<1>3. CASE ~Reset(t)
    <2>1. done' = done /\ \E to : pc' = [pc EXCEPT ![t] = to] /\ to # "idle"
        <3>1. CASE Move(t)
            <4>1. Following(t)[1] # "idle" /\ done' = done
                  /\ pc' = [pc EXCEPT ![t] = Following(t)[1]]
                BY <3>1, FollowingFacts DEF Move, Goes
            <4>2. QED BY <4>1
        <3>2. CASE Begin(t) \/ Copy(t) \/ Screen(t) \/ Flush(t)
            <4>1. /\ done' = done
                  /\ \/ pc' = [pc EXCEPT ![t] = "copy"] \/ pc' = [pc EXCEPT ![t] = "move"]
                     \/ pc' = [pc EXCEPT ![t] = "reset"]
                BY <3>2 DEF Begin, Copy, Screen, Flush, Goes
            <4>2. "copy" # "idle" /\ "move" # "idle" /\ "reset" # "idle"
                OBVIOUS
            <4>3. QED BY <4>1, <4>2, Zenon
        <3>3. QED BY <1>3, <3>1, <3>2
    <2>2. pc[l[1]] # "idle" => pc'[l[1]] # "idle"
        BY <1>1, <2>1 DEF TypesInv
    <2>3. QED BY <1>0, <1>1, <2>1, <2>2, PastIs
<1>4. QED BY <1>2, <1>3

(* Nothing is written of a line before its call.                           *)
LEMMA PastStep ==
    ASSUME TypesInv, PieceInv, PastInv, NEW t \in Threads,
           Begin(t) \/ Copy(t) \/ Move(t) \/ Screen(t) \/ Flush(t) \/ Reset(t)
    PROVE  PastInv'
<1> DEFINE Old(part) == part # Nothing => part.line \in Begun
<1>1. ASSUME NEW part, Old(part) PROVE part # Nothing => part.line \in Begun'
    BY <1>1, PastKept
<1>2. \A i \in DOMAIN file : Old(file[i])
    <2>1. TAKE i \in DOMAIN file
    <2>2. file[i] \in Parts
        BY LenProperties, ElementOfSeq DEF TypesInv
    <2>3. QED BY <2>2 DEF PastInv, Parts, Pieces
<1>3. \A i \in DOMAIN area : area[i] # Nothing /\ Old(area[i])
    BY DEF TypesInv, PastInv, Pieces, Nothing
<1> HIDE DEF Old
<1>4. \A i \in DOMAIN file' : file'[i] # Nothing => file'[i].line \in Begun'
    <2>1. CASE Flush(t)
        <3>1. file' = file \o Buffered /\ file \in Seq(Parts) /\ Buffered \in Seq(Parts)
            BY <2>1, BufferedFacts DEF Flush, TypesInv
        <3>2. TAKE i \in DOMAIN file'
        <3>3. CASE i \in DOMAIN file
            <4>1. file'[i] = file[i]
                BY <3>1, <3>3, ConcatPlaces
            <4>2. QED BY <1>1, <1>2, <3>3, <4>1
        <3>4. CASE i \notin DOMAIN file
            <4> DEFINE j == i - Len(file)
            <4>1. j \in DOMAIN Buffered /\ file'[i] = Buffered[j]
                <5>1. /\ DOMAIN (file \o Buffered) = 1..(Len(file) + Len(Buffered))
                      /\ DOMAIN file = 1..Len(file) /\ DOMAIN Buffered = 1..Len(Buffered)
                      /\ Len(file) \in Nat /\ Len(Buffered) \in Nat
                      /\ \A k \in DOMAIN Buffered : (file \o Buffered)[Len(file) + k] = Buffered[k]
                    BY <3>1, ConcatPlaces
                <5>2. i \in Nat /\ j \in DOMAIN Buffered /\ i = Len(file) + j
                    BY <3>1, <3>4, <5>1
                <5>3. QED BY <3>1, <5>1, <5>2
            <4>2. Buffered[j] = Nothing \/ (j \in DOMAIN area /\ Buffered[j] = area[j])
                BY <4>1 DEF Buffered
            <4>3. QED BY <1>1, <1>3, <4>1, <4>2
        <3>5. QED BY <3>3, <3>4
    <2>2. CASE ~Flush(t)
        <3>1. file' = file
            BY <2>2 DEF Begin, Copy, Move, Screen, Reset
        <3>2. QED BY <1>1, <1>2, <3>1
    <2>3. QED BY <2>1, <2>2
<1>5. \A i \in DOMAIN area' : area'[i].line \in Begun'
    <2>1. \A i \in DOMAIN area : area[i].line \in Begun'
        BY <1>1, <1>3
    <2>2. CASE Copy(t)
        <3> DEFINE copied == Piece(Line(t), piece[t], IF piece[t] = "prefix" THEN tm ELSE Line(t))
        <3>1. area' = [i \in DOMAIN area \cup {pptr + 1} |->
                         IF i = pptr + 1 THEN copied ELSE area[i]]
            BY <2>2 DEF Copy
        <3>2. copied.line = Line(t)
            BY DEF Piece
        <3>3. Line(t) \in Begun'
            <4>1. Line(t) \in AllLines /\ Line(t)[1] = t /\ Line(t)' = Line(t)
                BY <2>2 DEF Copy, Line, AllLines, TypesInv
            <4>2. pc'[t] = "move"
                BY <2>2 DEF Copy, Goes, TypesInv
            <4>3. QED BY <4>1, <4>2 DEF Begun
        <3> HIDE DEF copied
        <3>4. QED BY <2>1, <3>1, <3>2, <3>3
    <2>3. CASE ~Copy(t)
        <3>1. area' = area
            BY <2>3 DEF Begin, Flush, Move, Screen, Reset
        <3>2. QED BY <2>1, <3>1
    <2>4. QED BY <2>2, <2>3
<1>6. QED BY <1>4, <1>5 DEF PastInv

-----------------------------------------------------------------------------
(* A line that is not mixed.                                               *)

(* A thread that logs alone takes its own steps only.                      *)
LEMMA OnlyActor ==
    ASSUME TypesInv, AloneInv, NEW t \in Threads, NEW u \in Threads, u # t,
           pc'[u] # "idle", (Line(u) \notin mixed)',
           Begin(t) \/ Copy(t) \/ Move(t) \/ Screen(t) \/ Flush(t) \/ Reset(t)
    PROVE  FALSE
<1>1. pc'[u] = pc[u] /\ (done' = done \/ \E d : done' = [done EXCEPT ![t] = d])
      /\ mixed \subseteq mixed'
    BY DEF Begin, Copy, Move, Screen, Flush, Reset, Goes, TypesInv
<1>2. Line(u)' = Line(u) /\ Line(u) \notin mixed
    BY <1>1 DEF Line, TypesInv
<1>3. Others(u) = {} /\ pc[t] = "idle"
    BY <1>1, <1>2 DEF AloneInv, Others
<1>4. Begin(t)
    BY <1>3 DEF Copy, Move, Screen, Flush, Reset, Goes
<1>5. u \in Others(t)
    BY <1>1 DEF Others
<1>6. Line(u) \in mixed'
    BY <1>4, <1>5 DEF Begin
<1>7. QED BY <1>2, <1>6

(* What stands of its line is what the thread has inserted.                *)
LEMMA AloneStep ==
    ASSUME LogInv, NEW t \in Threads, pc'[t] # "idle", (Line(t) \notin mixed)',
           Begin(t) \/ Copy(t) \/ Move(t) \/ Screen(t) \/ Flush(t)
    PROVE  (Others(t) = {} /\ Undisturbed(t))'
<1>1. /\ Line(t)' = Line(t) /\ Line(t) \notin mixed /\ Line(t) \in AllLines
      /\ Line(t)[1] = t /\ Line(t)[2] = done[t] + 1 /\ done[t] \in Nat
    <2>1. done' = done /\ mixed \subseteq mixed'
        BY DEF Begin, Copy, Move, Screen, Flush
    <2>2. QED BY <2>1 DEF LogInv, TypesInv, Line, AllLines
<1>2. \A u \in Threads \ {t} : pc'[u] = pc[u]
    BY DEF Begin, Copy, Move, Screen, Flush, Goes, LogInv, TypesInv
<1>3. Others(t)' = Others(t)
    BY <1>2 DEF Others
<1> DEFINE l == Line(t)
<1>4. /\ WholeLine(l)[1] = Piece(l, "prefix", l)
      /\ WholeLine(l)[2] = Piece(l, "message", l)
      /\ WholeLine(l)[3] = Piece(l, "end", l)
    BY <1>1, PartsOfLine
<1> HIDE DEF l
<1>5. CASE Begin(t)
    <2>1. /\ pc[t] = "idle" /\ pc'[t] = "copy" /\ piece'[t] = "prefix" /\ tm' = l
          /\ UNCHANGED <<pptr, file, area, seen>>
        BY <1>5 DEF Begin, Goes, LogInv, TypesInv, l
    <2>2. Others(t) = {}
        BY <1>1, <1>5 DEF Begin
    <2>3. pptr = 0
        BY <2>1, <2>2 DEF LogInv, NothingKeptBack, Others
    <2>4. \A i \in DOMAIN file : ~IsOf(file[i], l)
        <3>1. l \notin Begun
            BY <1>1, <2>1, PastIs DEF l
        <3>2. QED BY <3>1 DEF LogInv, PastInv, IsOf
    <2>5. Inserted(t)' = 0
        BY <2>1 DEF Inserted
    <2>6. Undisturbed(t)'
        BY <1>1, <2>1, <2>3, <2>4, <2>5 DEF Undisturbed, IsOf, l
    <2>7. QED BY <1>3, <2>2, <2>6
<1>6. CASE ~Begin(t)
    <2>1. pc[t] \notin {"idle", "reset"}
        BY <1>6 DEF Copy, Move, Screen, Flush, Goes
    <2>2. Others(t) = {} /\ Undisturbed(t)
        BY <1>1, <2>1 DEF LogInv, AloneInv
    <2>3. /\ pptr = Inserted(t)
          /\ \A j \in 1..Inserted(t) : j \in DOMAIN area /\ area[j] = WholeLine(l)[j]
          /\ \A i \in DOMAIN file : ~IsOf(file[i], l)
        BY <2>1, <2>2 DEF Undisturbed, l
    <2>4. CASE Copy(t)
        <3>1. /\ pc[t] = "copy" /\ pc'[t] = "move" /\ UNCHANGED <<pptr, file, piece>>
              /\ seen'[t] = pptr
            BY <2>4 DEF Copy, Goes, LogInv, TypesInv
        <3>2. Inserted(t)' = Inserted(t)
            BY <3>1 DEF Inserted
        <3> DEFINE copied == Piece(l, piece[t], IF piece[t] = "prefix" THEN tm ELSE l)
        <3>3. area' = [i \in DOMAIN area \cup {pptr + 1} |->
                         IF i = pptr + 1 THEN copied ELSE area[i]]
            BY <2>4 DEF Copy, l
        <3>4. copied = WholeLine(l)[pptr + 1]
            <4>1. piece[t] \in Texts
                BY <3>1 DEF LogInv, TypesInv, PieceInv
            <4>2. piece[t] = "prefix" => tm = l
                BY <2>2, <3>1 DEF Undisturbed, l
            <4>3. QED BY <1>4, <2>3, <4>1, <4>2 DEF Texts, Inserted
        <3>5. pptr \in Nat
            BY DEF LogInv, TypesInv
        <3> HIDE DEF copied
        <3>6. pptr + 1 \in DOMAIN area' /\ area'[pptr + 1] = WholeLine(l)[pptr + 1]
            BY <3>3, <3>4
        <3>7. \A j \in 1..Inserted(t) : j \in DOMAIN area' /\ area'[j] = WholeLine(l)[j]
            BY <2>3, <3>3, <3>5
        <3>8. Undisturbed(t)'
            BY <1>1, <2>3, <3>1, <3>2, <3>6, <3>7 DEF Undisturbed, IsOf, WholeLine, Piece, l
        <3>9. QED BY <1>3, <2>2, <3>8
    <2>5. CASE Move(t)
        <3>1. /\ pc[t] = "move" /\ pc'[t] = Following(t)[1] /\ piece'[t] = Following(t)[2]
              /\ UNCHANGED <<file, area>>
            BY <2>5 DEF Move, Goes, LogInv, TypesInv
        <3>2. /\ seen[t] = pptr /\ pptr + 1 \in DOMAIN area
              /\ area[pptr + 1] = WholeLine(l)[pptr + 1]
            BY <2>2, <3>1 DEF Undisturbed, l
        <3>3. pptr' = pptr + 1
            BY <2>5, <3>2 DEF Move
        <3>4. /\ Inserted(t)' = Inserted(t) + 1 /\ Inserted(t) \in Nat
              /\ pc'[t] = "copy" => piece'[t] # "prefix"
              /\ pc'[t] \in {"copy", "screen", "write"}
            <4>1. piece[t] \in Texts
                BY <3>1 DEF LogInv, TypesInv, PieceInv
            <4>2. QED BY <3>1, <4>1 DEF Following, Inserted, Texts
        <3>5. \A j \in 1..(Inserted(t) + 1) : j \in DOMAIN area /\ area[j] = WholeLine(l)[j]
            BY <2>3, <3>2, <3>4
        <3>6. Undisturbed(t)'
            BY <1>1, <2>3, <3>1, <3>3, <3>4, <3>5 DEF Undisturbed, IsOf, WholeLine, Piece, l
        <3>7. QED BY <1>3, <2>2, <3>6
    <2>6. CASE Screen(t)
        <3>1. /\ pc'[t] = "copy" /\ pc[t] = "screen"
              /\ UNCHANGED <<file, area, piece, seen, pptr>>
            BY <2>6 DEF Screen, Goes, LogInv, TypesInv
        <3>2. Inserted(t)' = Inserted(t) /\ tm' = l
            BY <2>6, <3>1 DEF Inserted, Screen, l
        <3>3. Undisturbed(t)'
            BY <1>1, <2>3, <3>1, <3>2 DEF Undisturbed, IsOf, WholeLine, Piece, l
        <3>4. QED BY <1>3, <2>2, <3>3
    <2>7. CASE Flush(t)
        <3>1. pc'[t] = "reset" /\ pc[t] = "write" /\ file' = file \o Buffered
            BY <2>7 DEF Flush, Goes, LogInv, TypesInv
        <3>2. pptr = 3 /\ \A j \in 1..3 : j \in DOMAIN area /\ area[j] = WholeLine(l)[j]
            <4>1. piece[t] = "none"
                BY <3>1 DEF LogInv, TypesInv, PieceInv
            <4>2. QED BY <2>3, <4>1 DEF Inserted
        <3>3. Buffered \in Seq(Parts) /\ DOMAIN Buffered = 1..3 /\ file \in Seq(Parts)
            BY <3>2, BufferedFacts, LenProperties DEF LogInv, TypesInv
        <3>4. \A j \in 1..3 : Buffered[j] = WholeLine(l)[j]
            BY <3>2 DEF Buffered
        <3>5. l \in AllLines
            BY <1>1 DEF l
        <3>6. ASSUME NEW m \in AllLines, m = l PROVE InFile(m)'
            BY <2>3, <3>1, <3>3, <3>4, <3>6, InFileNow
        <3>7. Undisturbed(t)'
            BY <1>1, <3>1, <3>5, <3>6 DEF Undisturbed, InFile, WholeLine, Piece, l
        <3>8. QED BY <1>3, <2>2, <3>7
    <2>8. QED BY <1>6, <2>4, <2>5, <2>6, <2>7
<1>7. QED BY <1>5, <1>6

-----------------------------------------------------------------------------
(* The invariant, and what follows from it.                                *)

(* Every step keeps the invariant.                                         *)
LEMMA InvStep ==
    ASSUME LogInv, NEW t \in Threads,
           Begin(t) \/ Copy(t) \/ Move(t) \/ Screen(t) \/ Flush(t) \/ Reset(t)
    PROVE  LogInv'
<1>1. TypesInv'
    BY TypesStep DEF LogInv
<1>2. PieceInv'
    <2>1. CASE Move(t)
        <3>1. /\ pc' = [pc EXCEPT ![t] = Following(t)[1]]
              /\ piece' = [piece EXCEPT ![t] = Following(t)[2]] /\ pc[t] = "move"
            BY <2>1 DEF Move, Goes
        <3>2. /\ Following(t)[1] \in {"copy", "screen", "write"}
              /\ Following(t)[1] \in {"copy", "screen"} <=> Following(t)[2] # "none"
            BY <3>1, FollowingFacts DEF LogInv
        <3>3. QED BY <3>1, <3>2 DEF LogInv, PieceInv, TypesInv
    <2>2. CASE ~Move(t)
        BY <2>2 DEF LogInv, PieceInv, TypesInv, Texts, Begin, Copy, Screen, Flush, Reset, Goes
    <2>3. QED BY <2>1, <2>2
<1>3. PastInv'
    BY PastStep DEF LogInv
<1>4. AloneInv'
    <2>1. SUFFICES ASSUME NEW u \in Threads, pc'[u] # "idle", (Line(u) \notin mixed)'
                   PROVE  (Others(u) = {} /\ Undisturbed(u))'
        BY DEF AloneInv
    <2>2. u = t
        BY <2>1, OnlyActor DEF LogInv
    <2>3. ~Reset(t)
        BY <2>1, <2>2 DEF Reset, Goes, LogInv, TypesInv
    <2>4. QED BY <2>1, <2>2, <2>3, AloneStep
<1>5. LoggedInv'
    <2>1. SUFFICES ASSUME NEW u \in Threads, NEW k \in Nat \ {0}, k <= done'[u],
                          <<u, k>> \notin mixed'
                   PROVE  InFile(<<u, k>>)'
        BY DEF LoggedInv
    <2>2. <<u, k>> \notin mixed
        BY <2>1 DEF Begin, Copy, Move, Screen, Flush, Reset
    <2>3. InFile(<<u, k>>)
        <3>1. CASE k <= done[u]
            BY <2>2, <3>1 DEF LogInv, LoggedInv
        <3>2. CASE ~(k <= done[u])
            <4>1. done' # done
                BY <2>1, <3>2
            <4>2. Reset(t)
                BY <4>1 DEF Begin, Copy, Move, Screen, Flush
            <4>3. done[u] \in Nat /\ pc[t] = "reset" /\ done' = [done EXCEPT ![t] = done[t] + 1]
                BY <4>2 DEF Reset, Goes, LogInv, TypesInv
            <4>4. u = t /\ k = done[t] + 1
                BY <2>1, <3>2, <4>3 DEF LogInv, TypesInv
            <4>5. Undisturbed(t) /\ <<u, k>> = Line(t)
                BY <2>2, <4>3, <4>4 DEF LogInv, AloneInv, Line
            <4>6. QED BY <4>3, <4>5 DEF Undisturbed
        <3>3. QED BY <3>1, <3>2
    <2>4. CASE Flush(t)
        <3>1. file \in Seq(Parts) /\ Buffered \in Seq(Parts) /\ file' = file \o Buffered
            BY <2>4, BufferedFacts DEF Flush, LogInv, TypesInv
        <3>2. QED BY <2>3, <3>1, InFileKept
    <2>5. CASE ~Flush(t)
        <3>1. file' = file
            BY <2>5 DEF Begin, Copy, Move, Screen, Reset
        <3>2. QED BY <2>3, <3>1, InFileSame
    <2>6. QED BY <2>4, <2>5
<1>6. NothingKeptBack'
    <2>1. CASE Reset(t)
        BY <2>1 DEF Reset, NothingKeptBack
    <2>2. CASE ~Reset(t)
        <3>1. pc'[t] # "idle"
            <4>1. CASE Move(t)
                BY <4>1, FollowingFacts DEF Move, Goes, LogInv, TypesInv
            <4>2. QED BY <2>2, <4>1 DEF Begin, Copy, Screen, Flush, Goes, LogInv, TypesInv
        <3>2. QED BY <3>1 DEF NothingKeptBack
    <2>3. QED BY <2>1, <2>2
<1>7. QED BY <1>1, <1>2, <1>3, <1>4, <1>5, <1>6 DEF LogInv

(* A line that is in the file is what is read at its first place.          *)
LEMMA FirstPlace ==
    ASSUME TypesInv, NEW l \in AllLines, InFile(l)
    PROVE  LET places == {i \in DOMAIN file : file[i] # Nothing /\ file[i].line = l}
           IN  /\ places # {}
               /\ SubSeq(file, Min(places), Min(places) + 2) = WholeLine(l)
<1> DEFINE places == {i \in DOMAIN file : file[i] # Nothing /\ file[i].line = l}
<1>1. PICK k \in DOMAIN file :
        /\ k + 2 \in DOMAIN file /\ \A j \in 1..3 : file[k + (j - 1)] = WholeLine(l)[j]
        /\ \A i \in 1..(k - 1) : ~IsOf(file[i], l)
    BY DEF InFile
<1>2. DOMAIN file = 1..Len(file) /\ Len(file) \in Nat /\ k \in Nat
    BY <1>1, LenProperties DEF TypesInv
<1>3. \A j \in 1..3 : WholeLine(l)[j] \in Pieces /\ IsOf(WholeLine(l)[j], l)
    BY PartsOfLine
<1>4. file[k] = WholeLine(l)[1] /\ file[k + 1] = WholeLine(l)[2] /\ file[k + 2] = WholeLine(l)[3]
    <2>1. \A j \in 1..3 : file[k + (j - 1)] = WholeLine(l)[j]
        BY <1>1
    <2>2. k + (1 - 1) = k /\ k + (2 - 1) = k + 1 /\ k + (3 - 1) = k + 2
        BY <1>2
    <2>3. QED BY <2>1, <2>2
<1>5. k \in places
    BY <1>3, <1>4 DEF IsOf
<1>6. \A i \in places : k <= i
    BY <1>1, <1>2 DEF IsOf
<1>7. places \subseteq Nat
    BY <1>2
<1> HIDE DEF places
<1>8. Min(places) = k
    <2>1. \A x \in places : (\A y \in places : x <= y) => x = k
        BY <1>2, <1>5, <1>6, <1>7
    <2>2. QED BY <1>5, <1>6, <2>1 DEF Min
<1>9. SubSeq(file, k, k + 2) = WholeLine(l)
    <2> DEFINE s == SubSeq(file, k, k + 2)
    <2>1. \A i \in k..(k + 2) : file[i] \in Parts
        BY <1>1, <1>2, ElementOfSeq DEF TypesInv
    <2>2. /\ s \in Seq(Parts) /\ Len(s) = 3
          /\ \A i \in 1..3 : s[i] = file[k + i - 1]
        <3>1. file \in Seq(Parts) /\ k \in Int /\ k + 2 \in Int /\ k <= (k + 2) + 1
            BY <1>2 DEF TypesInv
        <3>2. /\ s \in Seq(Parts) /\ Len(s) = (k + 2) - k + 1
              /\ \A i \in 1..((k + 2) - k + 1) : s[i] = file[k + i - 1]
            BY <2>1, <3>1, SubSeqProperties
        <3>3. (k + 2) - k + 1 = 3
            BY <1>2
        <3>4. QED BY <3>2, <3>3
    <2>3. s[1] = file[k] /\ s[2] = file[k + 1] /\ s[3] = file[k + 2]
        BY <1>2, <2>2
    <2> HIDE DEF s
    <2>4. s = <<s[1], s[2], s[3]>>
        BY <2>2
    <2>5. QED BY <1>4, <2>3, <2>4 DEF WholeLine, s
<1>10. QED BY <1>5, <1>8, <1>9 DEF places

(* The damage the races do is confined to the calls that overlap, and      *)
(* nothing is kept back, for any threads and any number of lines.          *)
THEOREM LinesReach == Spec => []LinesReachFile
<1>1. Init => LogInv
    <2>1. SUFFICES ASSUME Init PROVE LogInv
        OBVIOUS
    <2>2. <<>> \in Seq(Parts) /\ DOMAIN <<>> = {}
        OBVIOUS
    <2>3. TypesInv
        BY <2>1, <2>2 DEF Init, TypesInv
    <2>4. PieceInv /\ PastInv /\ AloneInv /\ NothingKeptBack
        BY <2>1, <2>2 DEF Init, PieceInv, PastInv, AloneInv, NothingKeptBack
    <2>5. LoggedInv
        BY <2>1 DEF Init, LoggedInv
    <2>6. QED BY <2>3, <2>4, <2>5 DEF LogInv
<1>2. LogInv /\ [Next]_vars => LogInv'
    <2>1. SUFFICES ASSUME LogInv, UNCHANGED vars PROVE LogInv'
        BY InvStep DEF Next
    <2>2. TypesInv' /\ PieceInv' /\ PastInv' /\ NothingKeptBack'
        BY <2>1 DEF vars, LogInv, TypesInv, PieceInv, PastInv, NothingKeptBack, Begun, Line
    <2>3. \A t \in Threads : Line(t)' = Line(t) /\ (Undisturbed(t) => Undisturbed(t)')
                             /\ Others(t)' = Others(t)
        <3>1. TAKE t \in Threads
        <3>2. /\ Line(t)' = Line(t) /\ Others(t)' = Others(t) /\ Inserted(t)' = Inserted(t)
              /\ WholeLine(Line(t))' = WholeLine(Line(t))
            BY <2>1 DEF vars, Line, Others, Inserted, WholeLine, Piece
        <3>3. InFile(Line(t)) => InFile(Line(t))'
            BY <2>1, <3>2 DEF vars, InFile, IsOf
        <3>4. QED BY <2>1, <3>2, <3>3 DEF vars, Undisturbed, IsOf
    <2>4. AloneInv'
        BY <2>1, <2>3 DEF LogInv, AloneInv, vars
    <2>5. LoggedInv'
        BY <2>1, InFileSame DEF LogInv, LoggedInv, vars
    <2>6. QED BY <2>2, <2>4, <2>5 DEF LogInv
<1>3. LogInv => LinesReachFile
    <2>1. SUFFICES ASSUME LogInv PROVE DamageConfined
        BY DEF LogInv, LinesReachFile
    <2>2. SUFFICES ASSUME NEW l \in Logged \ mixed
                   PROVE  LET places == {i \in DOMAIN file : file[i] # Nothing /\ file[i].line = l}
                          IN  /\ places # {}
                              /\ SubSeq(file, Min(places), Min(places) + 2) = WholeLine(l)
        BY DEF DamageConfined
    <2>3. PICK t \in Threads, k \in Nat \ {0} : k <= done[t] /\ l = <<t, k>>
        <3>1. PICK t \in Threads : l \in {t} \X (1..done[t])
            BY DEF Logged
        <3>2. done[t] \in Nat
            BY <2>1 DEF LogInv, TypesInv
        <3>3. QED BY <3>1, <3>2
    <2>4. InFile(l) /\ l \in AllLines
        BY <2>1, <2>3 DEF LogInv, LoggedInv, AllLines
    <2>5. QED BY <2>1, <2>4, FirstPlace DEF LogInv
<1>4. QED BY <1>1, <1>2, <1>3, PTL DEF Spec
=============================================================================
