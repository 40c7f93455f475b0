---------------------------- MODULE LogRedaction ----------------------------
(***************************************************************************)
(* The dashboard's log redaction (src/cmd/dashboard/init.go:131-153):      *)
(* customFormatter.Format replaces the entry's message by                  *)
(* hideAccessToken(message), which rewrites every match of the regular     *)
(* expression  access_token=([^& ]+)  to  access_token=*** .               *)
(*                                                                         *)
(* A message is a sequence of symbols: the literal "access_token=" is one  *)
(* symbol (TokenParam), every other character stands for itself.  The      *)
(* literal has no proper prefix that is also its suffix, so its            *)
(* occurrences in a string never overlap and the symbol abstraction keeps  *)
(* every match.  The timestamp and level layout of logrus.TextFormatter    *)
(* is left out.                                                            *)
(***************************************************************************)
EXTENDS Naturals, Sequences, SequencesExt

TokenParam == "access_token="

\* The characters the class [^& ]+ excludes.
Delims == {"&", " "}

Mask == <<"*", "*", "*">>

\* The suffix of s after its leading run of characters outside Delims:
\* what is left once the greedy [^& ]+ has consumed that run.
AfterRun(s) ==
    LET d == SelectInSeq(s, LAMBDA c : c \in Delims)
    IN  IF d = 0 THEN <<>> ELSE SubSeq(s, d, Len(s))

\* Mutant: the class quantified with * instead of +, so a bare
\* "access_token=" before a delimiter or at the end is rewritten too.
HideAccessTokenStar(message) ==
    LET RECURSIVE Scan(_)
        Scan(m) ==
            IF m = <<>> THEN <<>>
            ELSE IF Head(m) = TokenParam
                 THEN <<TokenParam>> \o Mask \o Scan(AfterRun(Tail(m)))
                 ELSE <<Head(m)>> \o Scan(Tail(m))
    IN  Scan(message)

\* hideAccessToken: regexp.ReplaceAllString scans left to right; at an
\* "access_token=" followed by at least one character outside Delims it
\* replaces the literal and the whole greedy run, and resumes after it.
\* The regexp.Compile error branch is unreachable: the pattern is a
\* constant that compiles.
HideAccessToken(message) ==
    LET RECURSIVE Scan(_)
        Scan(m) ==
            IF m = <<>> THEN <<>>
            ELSE IF Head(m) = TokenParam /\ Len(m) > 1 /\ m[2] \notin Delims
                 THEN <<TokenParam>> \o Mask \o Scan(AfterRun(Tail(m)))
                 ELSE <<Head(m)>> \o Scan(Tail(m))
    IN  Scan(message)

\* customFormatter.Format: the entry is formatted with its message hidden.
Format(message) == HideAccessToken(message)

-----------------------------------------------------------------------------
(* The reference: what redaction means, stated by fields.  A field is a    *)
(* maximal run of characters outside Delims; a field in which              *)
(* "access_token=" occurs with a character after it keeps what precedes   *)
(* and includes its first occurrence, and the rest becomes ***; every     *)
(* other field and every delimiter is kept.                                *)
(***************************************************************************)

\* The message cut into its fields and single delimiters, in order.
RECURSIVE Pieces(_)
Pieces(m) ==
    IF m = <<>> THEN <<>>
    ELSE IF Head(m) \in Delims THEN <<<<Head(m)>>>> \o Pieces(Tail(m))
    ELSE LET d == SelectInSeq(m, LAMBDA c : c \in Delims)
             n == IF d = 0 THEN Len(m) ELSE d - 1
         IN  <<SubSeq(m, 1, n)>> \o Pieces(SubSeq(m, n + 1, Len(m)))

RedactedPiece(f) ==
    LET p == SelectInSeq(f, LAMBDA c : c = TokenParam)
    IN  IF p > 0 /\ p < Len(f) THEN SubSeq(f, 1, p) \o Mask ELSE f

Redacted(m) == FlattenSeq([i \in DOMAIN Pieces(m) |-> RedactedPiece(Pieces(m)[i])])

=============================================================================
