------------------------------- MODULE Logger -------------------------------
(***************************************************************************)
(* The log (Logger.cpp, Logger.h): every thread inserts the pieces of its  *)
(* line into one fstream, and asks localtime for the time, without a lock. *)
(*                                                                         *)
(* A line is the time, the message and endl's line end, inserted one after *)
(* the other.  An insertion copies to the put position of the stream's     *)
(* buffer and then moves it; endl then writes the buffer to the file and   *)
(* resets it.  Between any two of these steps another thread may do its    *)
(* own: a data race, whose outcomes are the interleavings, and for the put *)
(* position also the update lost.                                          *)
(***************************************************************************)
EXTENDS Naturals, Sequences, SequencesExt, FiniteSetsExt

CONSTANTS Threads,
          Ending,  \* workers that end by an exception: WriteLog, once
          Lines    \* bound: how many lines each of the others logs

ASSUME LoggerAssumption == Ending \subseteq Threads /\ Lines \in Nat

VARIABLES
    pc,     \* each thread's place in log or WriteLog: idle, copy, move, screen, write, reset
    done,   \* how many lines it has logged
    tm,     \* localtime's static struct: whose time it holds
    piece,  \* the piece each thread inserts
    seen,   \* the put position it copied to
    area,   \* the stream's buffer, as far as it was ever written
    pptr,   \* its put position: so many pieces are to be written
    file,   \* log.txt, opened with fstream::app
    mixed   \* history: lines during which another thread was logging too

vars == <<pc, done, tm, piece, seen, area, pptr, file, mixed>>

\* What is in the buffer where no piece was copied.
Nothing == [text |-> "none"]

Line(t) == <<t, done[t] + 1>>
Piece(line, text, time) == [line |-> line, text |-> text, time |-> time]

Init ==
    /\ pc = [t \in Threads |-> "idle"] /\ done = [t \in Threads |-> 0]
    /\ tm = <<>>
    /\ piece = [t \in Threads |-> "none"] /\ seen = [t \in Threads |-> 0]
    /\ area = <<>> /\ pptr = 0
    /\ file = <<>> /\ mixed = {}

Goes(t, from, to) == pc[t] = from /\ pc' = [pc EXCEPT ![t] = to]

LinesOf(t) == IF t \in Ending THEN 1 ELSE Lines

Others(t) == {u \in Threads \ {t} : pc[u] # "idle"}

\* TimePrefix: localtime fills the one struct there is.
Begin(t) ==
    /\ Goes(t, "idle", "copy")
    /\ done[t] < LinesOf(t)
    /\ tm' = Line(t)
    /\ piece' = [piece EXCEPT ![t] = "prefix"]
    /\ mixed' = IF Others(t) = {} THEN mixed
                ELSE mixed \cup {Line(t)} \cup {Line(u) : u \in Others(t)}
    /\ UNCHANGED <<done, seen, area, pptr, file>>

\* The piece is copied; put_time reads the struct for the prefix only now.
Copy(t) ==
    /\ Goes(t, "copy", "move")
    /\ seen' = [seen EXCEPT ![t] = pptr]
    /\ LET copied == Piece(Line(t), piece[t], IF piece[t] = "prefix" THEN tm ELSE Line(t))
       IN  area' = [i \in DOMAIN area \cup {pptr + 1} |->
                      IF i = pptr + 1 THEN copied ELSE area[i]]
    /\ UNCHANGED <<done, tm, piece, pptr, file, mixed>>

\* What follows a piece; log also prints a time of its own on the screen.
Following(t) ==
    CASE piece[t] = "prefix"  -> <<"copy", "message">>
      [] piece[t] = "message" -> <<IF t \in Ending THEN "copy" ELSE "screen", "end">>
      [] piece[t] = "end"     -> <<"write", "none">>

\* pptr += n, or the same with what it was before another thread moved it.
Move(t) ==
    /\ Goes(t, "move", Following(t)[1])
    /\ piece' = [piece EXCEPT ![t] = Following(t)[2]]
    /\ \E old \in {pptr, seen[t]} : pptr' = old + 1
    /\ seen' = [seen EXCEPT ![t] = 0]
    /\ UNCHANGED <<done, tm, area, file, mixed>>

\* operator<< of Logger.h: another TimePrefix, for std::cout.
Screen(t) ==
    /\ Goes(t, "screen", "copy")
    /\ tm' = Line(t)
    /\ UNCHANGED <<done, piece, seen, area, pptr, file, mixed>>

\* endl: the buffer goes to the end of the file, in one write.
Buffered == [i \in 1..pptr |-> IF i \in DOMAIN area THEN area[i] ELSE Nothing]

Flush(t) ==
    /\ Goes(t, "write", "reset")
    /\ file' = file \o Buffered
    /\ UNCHANGED <<done, tm, piece, seen, area, pptr, mixed>>

\* Mutant: the put position is left at the end.
Reset_Kept(t) ==
    /\ Goes(t, "reset", "idle")
    /\ done' = [done EXCEPT ![t] = @ + 1]
    /\ UNCHANGED <<tm, piece, seen, area, pptr, file, mixed>>

Reset(t) ==
    /\ Goes(t, "reset", "idle")
    /\ pptr' = 0
    /\ done' = [done EXCEPT ![t] = @ + 1]
    /\ UNCHANGED <<tm, piece, seen, area, file, mixed>>

Next == \E t \in Threads :
    Begin(t) \/ Copy(t) \/ Move(t) \/ Screen(t) \/ Flush(t) \/ Reset(t)

Spec == Init /\ [][Next]_vars

-----------------------------------------------------------------------------
WholeLine(l) ==
    <<Piece(l, "prefix", l), Piece(l, "message", l), Piece(l, "end", l)>>

Logged == UNION {{t} \X (1..done[t]) : t \in Threads}

(* The damage is confined to the calls that overlap: a line during which   *)
(* nobody else was logging is in the file when its call returns, in one    *)
(* piece and with its own time, whatever the races before it left behind.  *)
(* (Races after it can write parts of it a second time.)                   *)
DamageConfined ==
    \A l \in Logged \ mixed :
        LET places == {i \in DOMAIN file : file[i] # Nothing /\ file[i].line = l}
        IN  /\ places # {}
            /\ SubSeq(file, Min(places), Min(places) + 2) = WholeLine(l)

(* Nobody's line is kept back in the buffer: when nobody is logging, the   *)
(* stream has nothing left to write.                                       *)
NothingKeptBack == (\A t \in Threads : pc[t] = "idle") => pptr = 0

(* Together: what is logged gets to the file.                              *)
LinesReachFile == DamageConfined /\ NothingKeptBack
=============================================================================
