----------------------------- MODULE StopChecker ----------------------------
(***************************************************************************)
(* Stop strings applied to streamed text. Texts are sequences of letters.  *)
(***************************************************************************)
EXTENDS Integers, Sequences, SequencesExt, FiniteSetsExt

CONSTANTS
    Letters,    \* the characters
    StopSets,   \* a request's stop strings
    Texts,      \* what a detokenizer emits at once
    MaxText     \* bound: letters of a text

ASSUME TextAssumption ==
    /\ \A stops \in StopSets : IsFiniteSet(stops) /\ \A s \in stops : s \in Seq(Letters)
    /\ \A text \in Texts : text \in Seq(Letters)
    /\ MaxText \in Nat

VARIABLES
    checker,    \* the StopChecker, with what it has let through
    sent,       \* the text so far
    ended       \* generation has ended

stopVars == <<checker, sent, ended>>

(* Where stops begin in a text, 0-based as str.find says it. *)
Finds(text, stops) ==
    {i \in 0..Len(text) : \E s \in stops : s # << >> /\ IsPrefix(s, SubSeq(text, i + 1, Len(text)))}

(* Fault: a letter of the longest stop is let go too early. *)
HoldShort(stops) == Max({Len(s) : s \in stops} \cup {2}) - 2

(* The tail in which a match could still start. *)
Hold(stops) == Max({Len(s) : s \in stops} \cup {1}) - 1

NewChecker(stops) == [stops |-> stops, buffer |-> << >>, emitted |-> << >>, matched |-> FALSE]

(* push: what is safe to emit now. *)
Push(c, text) ==
    LET buffer == c.buffer \o text
        found == Finds(buffer, c.stops)
        keep == Max({Len(buffer) - Hold(c.stops), 0})
        Emit(n, rest) == [c EXCEPT !.emitted = @ \o SubSeq(buffer, 1, n), !.buffer = rest]
    IN  CASE c.stops \subseteq {<< >>} -> [c EXCEPT !.emitted = @ \o text]
          [] OTHER -> IF found # {} THEN [Emit(Min(found), << >>) EXCEPT !.matched = TRUE]
                      ELSE Emit(keep, SubSeq(buffer, keep + 1, Len(buffer)))

(* flush: generation ended with no match. *)
Flush(c) == [c EXCEPT !.emitted = @ \o c.buffer, !.buffer = << >>]

-----------------------------------------------------------------------------
StopInit ==
    /\ checker \in {NewChecker(stops) : stops \in StopSets}
    /\ sent = << >> /\ ended = FALSE

(* A text goes on until it matches or its generation ends. *)
PushText ==
    /\ ~ended /\ ~checker.matched
    /\ \E text \in Texts :
          /\ Len(sent) + Len(text) <= MaxText
          /\ sent' = sent \o text
          /\ checker' = Push(checker, text)
    /\ UNCHANGED ended

EndText ==
    /\ ~ended /\ ~checker.matched
    /\ ended' = TRUE
    /\ checker' = Flush(checker)
    /\ UNCHANGED sent

StopNext == PushText \/ EndText

StopSpec == StopInit /\ [][StopNext]_stopVars

-----------------------------------------------------------------------------
(* However a text is cut into pieces, what is emitted is the text up to    *)
(* the first stop string in it and never a letter of one: before a match   *)
(* all but a held tail that could begin one, at the end all of it.         *)
StopsOnce ==
    LET found == Finds(sent, checker.stops)
    IN  /\ checker.matched <=> found # {}
        /\ IF checker.matched THEN checker.emitted = SubSeq(sent, 1, Min(found))
           ELSE checker.emitted \o checker.buffer = sent
        /\ ended => checker.emitted = sent
=============================================================================
