--------------------------------- MODULE RfLog ---------------------------------
(***************************************************************************)
(* The RF log file (rflog.cpp): lines appended to the live file, which is  *)
(* copied to <path>.1 and truncated when the next line would not fit.      *)
(*                                                                         *)
(* A file is a sequence of cells; a cell is named by the line it is part   *)
(* of, so <<1, 1, 2>> is line 1 and the first half of line 2.  Every       *)
(* system call is an action and may fail; the process may crash between    *)
(* two of them, and the controller may truncate the live file at any time. *)
(* LorahamBackend has the lines the backend asks for, this module has what *)
(* becomes of them.  Mutants are as in LorahamBackend.                     *)
(***************************************************************************)
EXTENDS Integers, Sequences, SequencesExt

CONSTANTS
    MaxLines,   \* bound on the number of lines written
    LineLen,    \* cells of a line (at most kLineMax bytes)
    MaxBytes,   \* g_max_bytes, in cells
    ChunkLen    \* cells that one pread of the copy returns

ASSUME RfLogAssumption ==
    /\ MaxLines \in Nat /\ ChunkLen \in Nat \ {0}
    /\ LineLen \in Nat \ {0} /\ MaxBytes \in Nat /\ LineLen <= MaxBytes

VARIABLES
    live, prev, \* the files <path> and <path>.1
    pc,         \* closed, idle, or the system call that write_line makes next
    off,        \* off of copy_to_previous
    line,       \* the newest line
    left,       \* cells of it not yet written
    whole,      \* lines that were completely written and not cleared
    overgrown,  \* a rollover failed since the live file was last empty
    segment     \* what <path>.1 held after the last copy that succeeded

files == <<live, prev>>
hist == <<whole, overgrown, segment>>
vars == <<files, pc, off, line, left, hist>>

Init ==
    /\ live = <<>> /\ prev = <<>> /\ pc = "closed"
    /\ off = 0 /\ line = 0 /\ left = 0
    /\ whole = {} /\ overgrown = FALSE /\ segment = <<>>

(* open: O_APPEND keeps what is there. *)
open ==
    /\ pc = "closed"
    /\ pc' = "idle"
    /\ UNCHANGED <<files, off, line, left, hist>>

close ==
    /\ pc = "idle"
    /\ pc' = "closed"
    /\ UNCHANGED <<files, off, line, left, hist>>

(* Mutant: the new line is not counted. *)
IsFull == Len(live) > MaxBytes

NeedsRoll == Len(live) + LineLen > MaxBytes

(* rx or tx formats a line and calls write_line, which asks for the size.  *)
write_line ==
    /\ pc = "idle" /\ line < MaxLines
    /\ line' = line + 1 /\ left' = LineLen
    /\ pc' \in {IF NeedsRoll THEN "copy_open" ELSE "write", "write"}
    /\ overgrown' = (overgrown \/ (NeedsRoll /\ pc' = "write"))  \* fstat fails
    /\ UNCHANGED <<files, off, whole, segment>>

(* Mutant: the live file is truncated although the copy failed. *)
FailTruncates == pc' = "truncate" /\ UNCHANGED overgrown

(* copy_to_previous returns false: no ftruncate. *)
CopyFails == pc' = "write" /\ overgrown' = TRUE

(* Mutant: the previous segment is opened without O_TRUNC. *)
OpenPreviousAppends ==
    /\ pc = "copy_open"
    /\ pc' = "copy" /\ off' = 0
    /\ UNCHANGED <<files, line, left, hist>>

(* copy_to_previous opens <path>.1 with O_TRUNC. *)
OpenPrevious ==
    /\ pc = "copy_open"
    /\ \/ /\ prev' = <<>> /\ off' = 0
          /\ pc' = "copy"
          /\ UNCHANGED overgrown
       \/ CopyFails /\ UNCHANGED <<prev, off>>
    /\ UNCHANGED <<live, line, left, whole, segment>>

(* One pread and the writes that copy what it returned. *)
CopyChunk ==
    /\ pc = "copy" /\ off < Len(live)
    /\ LET n == IF off + ChunkLen < Len(live) THEN ChunkLen ELSE Len(live) - off
           Copied(k) == prev' = prev \o SubSeq(live, off + 1, off + k)
       IN \/ /\ Copied(n)
             /\ off' = off + n
             /\ UNCHANGED <<pc, overgrown>>
          \/ /\ \E k \in 0 .. n - 1 : Copied(k)
             /\ CopyFails
             /\ UNCHANGED off
    /\ UNCHANGED <<live, line, left, whole, segment>>

(* pread finds the end of the file: the copy is done, unless pread fails. *)
CopyEnds ==
    /\ pc = "copy" /\ off >= Len(live)
    /\ \/ pc' = "truncate" /\ segment' = prev /\ UNCHANGED overgrown
       \/ CopyFails /\ UNCHANGED segment
    /\ UNCHANGED <<files, off, line, left, whole>>

Truncate ==
    /\ pc = "truncate"
    /\ pc' = "write"
    /\ \/ live' = <<>> /\ overgrown' = FALSE
       \/ UNCHANGED live /\ overgrown' = TRUE
    /\ UNCHANGED <<prev, off, line, left, whole, segment>>

(* One write of the rest of the line: some of it, or an error, which loses *)
(* the rest.                                                               *)
WriteSome ==
    /\ pc = "write"
    /\ \/ \E k \in 1 .. left :
             /\ live' = live \o [i \in 1 .. k |-> line]
             /\ left' = left - k
             /\ pc' = IF left' = 0 THEN "idle" ELSE "write"
             /\ whole' = IF left' = 0 /\ LineLen - left = Len(SelectSeq(live, LAMBDA c : c = line))
                         THEN whole \cup {line} ELSE whole
       \/ left' = 0 /\ pc' = "idle" /\ UNCHANGED <<live, whole>>
    /\ UNCHANGED <<prev, off, line, overgrown, segment>>

(* The controller's Clear. *)
Clear ==
    /\ live' = <<>> /\ overgrown' = FALSE
    /\ whole' = whole \ ToSet(live)
    /\ UNCHANGED <<prev, pc, off, line, left, segment>>

Crash ==
    /\ pc # "closed"
    /\ pc' = "closed"
    /\ segment' = prev
    /\ UNCHANGED <<files, off, line, left, whole, overgrown>>

Next ==
    \/ open \/ close \/ write_line \/ OpenPrevious \/ CopyChunk \/ CopyEnds
    \/ Truncate \/ WriteSome \/ Clear \/ Crash
Spec == Init /\ [][Next]_vars
-------------------------------------------------------------------------------
(* Properties. *)

(* Both files hold cells of lines that were written, in the order written. *)
RfLogTypeOK ==
    /\ pc \in {"closed", "idle", "copy_open", "copy", "truncate", "write"}
    /\ off \in Nat /\ line \in 0 .. MaxLines /\ left \in 0 .. LineLen
    /\ whole \subseteq 1 .. MaxLines /\ overgrown \in BOOLEAN
    /\ \A f \in {live, prev, segment} : \A i \in 1 .. Len(f) :
          f[i] \in 1 .. line /\ (i > 1 => f[i - 1] <= f[i])

(* A rollover keeps the live segment: the live file is emptied by Clear, or *)
(* when all of it is in <path>.1.                                           *)
RollKeepsLines == [][live # <<>> /\ live' = <<>> => Clear \/ prev = live]_vars

(* What rollovers, their failures and crashes drop is the oldest part of    *)
(* the log: a whole line that is in neither file is older than every line   *)
(* of which something is kept.                                              *)
KeptIsSuffix ==
    \A l \in whole : \A m \in ToSet(live) \cup ToSet(prev) :
        l >= m => l \in ToSet(live) \cup ToSet(prev)

(* The live file exceeds its cap only after a rollover failed. *)
CapKept == overgrown \/ Len(live) <= MaxBytes

(* The previous segment is replaced only when the copy succeeded: after a   *)
(* rollover, failed or not, the whole lines that the last successful one    *)
(* left in <path>.1 are there, or still in the live file.                   *)
PrevReplacedByCopy ==
    pc = "write" => whole \cap ToSet(segment) \subseteq ToSet(prev) \cup ToSet(live)
===============================================================================
