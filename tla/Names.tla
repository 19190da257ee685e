------------------------------- MODULE Names -------------------------------
(***************************************************************************)
(* Display names: what registration and renaming accept, store and show,   *)
(* and the versioned policy that refuses some of them.  The policy knows   *)
(* terms only by their digests, so a disguise is caught only when undoing  *)
(* it gives the term's very bytes.                                         *)
(*                                                                         *)
(* A name is a sequence of characters, each standing for its class: two    *)
(* letters in both cases, a digit that stands for one of them, a digit     *)
(* that stands for none, a letter outside ASCII, white space of two kinds, *)
(* and a character no name may hold.                                       *)
(***************************************************************************)
EXTENDS Integers, SequencesExt

CONSTANTS
    WholeTerms, TokenTerms, SubstringTerms,   \* the policy's terms, upper-case
    Reserved,          \* reservedNormalized
    AnonymousName,     \* NO NAME, one of them
    MinNameLen,        \* 3
    MaxNameLen,        \* 20
    MaxTyped           \* bound: characters typed

VARIABLE typed         \* the name a request carries

-----------------------------------------------------------------------------
Small    == {"n", "o"}
Capitals == {"N", "O"}
Folding  == {"0"}                   \* 0 for O, and so 3, 4, 5, 7 and 8
Plain    == {"1"}                   \* digits left alone
Ascii    == Small \cup Capitals \cup Folding \cup Plain \cup {" "}
Wide     == {"w"}                   \* a letter of another script
Blank    == {" ", "t"}              \* a space; a tab
Symbol   == {"!"}
Chars    == Ascii \cup Wide \cup Blank \cup Symbol

Upper(c) == CASE c = "n" -> "N" [] c = "o" -> "O" [] OTHER -> c
Fold(c)  == IF c = "0" THEN "O" ELSE c

Uppered(s)        == [i \in DOMAIN s |-> Upper(s[i])]
foldOtherDigits(s) == [i \in DOMAIN s |-> Fold(s[i])]

\* Policy terms are upper-case and hold no digit that folds: so README.md:152-158
\* describes how the asset is made; parse() does not check it.
ASSUME TermsAssumption ==
    \A term \in WholeTerms \cup TokenTerms \cup SubstringTerms :
        \A i \in DOMAIN term : term[i] \in Capitals \cup Plain \cup {" "}
ASSUME LengthsAssumption == MinNameLen \in Nat \ {0} /\ MaxNameLen \in Nat /\ MaxTyped \in Nat

\* s without the characters of set at either end.
Trimmed(s, set) ==
    LET kept == {i \in DOMAIN s : s[i] \notin set}
    IN  IF kept = {} THEN <<>>
        ELSE SubSeq(s, CHOOSE i \in kept : \A j \in kept : i <= j,
                       CHOOSE i \in kept : \A j \in kept : j <= i)

\* The characters of s at the places kept, in their order.
Kept(s, kept) ==
    [n \in 1..Cardinality(kept) |->
        s[CHOOSE j \in kept : Cardinality({k \in kept : k <= j}) = n]]

\* s with every run of blanks in it made one space.
Collapsed(s) ==
    LET blank(i) == s[i] \in Blank
    IN  Kept([i \in DOMAIN s |-> IF blank(i) THEN " " ELSE s[i]],
             {i \in DOMAIN s : ~(blank(i) /\ i > 1 /\ blank(i - 1))})

\* The places of s that hold no space, and those of the first spaces between them.
Solid(s)   == {i \in DOMAIN s : s[i] # " "}
Parting(s) == {i \in DOMAIN s : /\ s[i] = " " /\ i - 1 \in Solid(s)
                               /\ \E k \in Solid(s) : k > i}

compact(s) == Kept(s, Solid(s))

-----------------------------------------------------------------------------
(* The policy: filter.go.                                                    *)

\* The words of a normalised name.
Words(s) ==
    {SubSeq(s, w[1], w[2]) : w \in
        {w \in (1..Len(s)) \X (1..Len(s)) :
            /\ w[1] <= w[2]
            /\ \A k \in w[1]..w[2] : s[k] # " "
            /\ w[1] = 1 \/ s[w[1] - 1] = " "
            /\ w[2] = Len(s) \/ s[w[2] + 1] = " "}}

rejectsCandidate(s) ==
    \/ s \in WholeTerms
    \/ \E token \in Words(s) :
          \/ token \in TokenTerms
          \/ \E i \in 1..Len(token) : \E j \in i..Len(token) :
                SubSeq(token, i, j) \in SubstringTerms

\* normalizeASCII fails on any character outside ASCII's letters and digits.
normalizable(s) == (\A i \in DOMAIN s : s[i] \in Ascii) /\ Solid(s) # {}
normalizeASCII(s) == Uppered(Kept(s, Solid(s) \cup Parting(s)))

Rejects_FoldOrCompact(s) ==
    /\ normalizable(s)
    /\ LET normalized == normalizeASCII(s)
       IN  \E candidate \in {normalized, compact(normalized), foldOtherDigits(normalized)} :
              rejectsCandidate(candidate)
Rejects(s) ==
    /\ normalizable(s)
    /\ LET normalized == normalizeASCII(s)
       IN  \E candidate \in {normalized, compact(normalized), foldOtherDigits(normalized),
                             foldOtherDigits(compact(normalized))} :
              rejectsCandidate(candidate)

-----------------------------------------------------------------------------
(* What is accepted, stored and shown: names.go.                             *)

Normalize(s) == Collapsed(Trimmed(Uppered(s), Blank))

Nameable == Small \cup Capitals \cup Folding \cup Plain \cup Wide \cup {" "}

\* NO NAME is reserved, which is what keeps a player from typing it as a name.
ASSUME AnonymousAssumption == AnonymousName # <<>> /\ Normalize(AnonymousName) \in Reserved

\* validateOptionalDisplayName: "" or the 422 reason.
Reason(raw) ==
    LET trimmed == Trimmed(raw, Blank)
    IN  CASE trimmed = <<>> -> ""
          [] trimmed # <<>> /\ Len(trimmed) < MinNameLen -> "name_too_short"
          [] Len(trimmed) > MaxNameLen -> "name_too_long"
          [] OTHER ->
               CASE \E i \in DOMAIN trimmed : trimmed[i] \notin Nameable -> "name_invalid_characters"
                 [] OTHER -> IF Normalize(trimmed) \in Reserved THEN "name_reserved"
                             ELSE IF Rejects(trimmed) THEN "name_inappropriate" ELSE ""

\* What is stored under a name that is accepted; the empty name is anonymous.
Stored(raw) == Trimmed(raw, Blank)

Display(stored) == IF stored = <<>> THEN AnonymousName ELSE stored

-----------------------------------------------------------------------------
(* A request may carry any text.                                             *)

NamesInit == typed = <<>>

Type(c) == Len(typed) < MaxTyped /\ typed' = Append(typed, c)

NamesNext == \E c \in Chars : Type(c)

NamesSpec == NamesInit /\ [][NamesNext]_typed

-----------------------------------------------------------------------------
(* Properties.                                                               *)

\* A request's name is text.
NamesTypeOK == typed \in Seq(Chars) /\ Len(typed) <= MaxTyped

\* A spelling of s that a reader takes for the same: one letter in the other
\* case, or a digit for the letter it looks like, or that letter for the digit;
\* one more space where there is one, or at an end; and anywhere, if s is refused
\* without its spaces.
Respellings(s) ==
    {[s EXCEPT ![w[1]] = w[2]] : w \in
        {w \in (1..Len(s)) \X Ascii : Fold(Upper(w[2])) = Fold(Upper(s[w[1]]))}}
    \cup {InsertAt(s, i, " ") : i \in
        {j \in 1..(Len(s) + 1) :
            \/ j = 1 \/ j = Len(s) + 1
            \/ s[j] = " " \/ s[j - 1] = " "
            \/ Rejects(compact(s))}}

\* A refused name stays refused in every such spelling, and so through any
\* sequence of them: no single rule of the four candidates may be missing.
RejectionSurvives ==
    Rejects(typed) => \A s \in Respellings(typed) : Rejects(s)

\* Only a player with no name is shown as one: what is accepted and shown like
\* NO NAME, in whatever case and spacing, is stored as absence.  And a stored
\* name is accepted again as it stands, so that sending it back renames nobody.
AnonymousIsAbsence ==
    Reason(typed) = "" =>
        /\ Normalize(Display(Stored(typed))) = Normalize(AnonymousName) => Stored(typed) = <<>>
        /\ Reason(Stored(typed)) = "" /\ Stored(Stored(typed)) = Stored(typed)
        /\ Display(Stored(typed)) # <<>>

NamesHold == RejectionSurvives /\ AnonymousIsAbsence
=============================================================================
