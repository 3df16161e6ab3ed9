-------------------------------- MODULE Phone --------------------------------
(***************************************************************************)
(* phone.Normalize: what makes one caller of the several ways to spell a   *)
(* Ukrainian number.  A spelling is a sequence of digits and of Other, any *)
(* character that is not one; a number is its nine digits after +380.      *)
(***************************************************************************)
EXTENDS Naturals, SequencesExt

Other == 10

NoPhone == <<>>  \* not a plausible Ukrainian number

\* The spellings that Normalize is to map to one form.
Spellings(number) ==
    {prefix \o number :
        prefix \in {<<Other, 3, 8, 0, Other>>, <<3, 8, 0>>, <<8, 0>>, <<0>>, <<>>}}

\* The digits of s, as the loop gathers them.
Digits(s) ==
    LET kept[n \in 0 .. Len(s)] ==
            IF n = 0 THEN <<>>
            ELSE IF s[n] = Other THEN kept[n - 1] ELSE Append(kept[n - 1], s[n])
    IN  kept[Len(s)]

\* Mutant of Normalize: a number without its 0 is taken for one with it.
NormalizeNineAsTen(s) ==
    LET d == Digits(s)
    IN  CASE Len(d) = 12 /\ IsPrefix(<<3, 8, 0>>, d) -> d
          [] Len(d) = 11 /\ IsPrefix(<<8, 0>>, d)    -> <<3>> \o d
          [] Len(d) = 10 /\ IsPrefix(<<0>>, d)       -> <<3, 8>> \o d
          [] Len(d) = 9                              -> <<3, 8>> \o d
          [] OTHER                                   -> NoPhone

Normalize(s) ==
    LET d == Digits(s)
    IN  CASE Len(d) = 12 /\ IsPrefix(<<3, 8, 0>>, d) -> d
          [] Len(d) = 11 /\ IsPrefix(<<8, 0>>, d)    -> <<3>> \o d
          [] Len(d) = 10 /\ IsPrefix(<<0>>, d)       -> <<3, 8>> \o d
          [] Len(d) = 9                              -> <<3, 8, 0>> \o d
          [] OTHER                                   -> NoPhone
==============================================================================
