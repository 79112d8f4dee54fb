----------------------------- MODULE HttpRequest -----------------------------
(***************************************************************************)
(* What core/http/httprequest.cpp makes of a request head, as far as the   *)
(* body that follows depends on it.  A head is what its bytes amount to:   *)
(* whether its blank line has arrived, whether a size limit is exceeded,   *)
(* whether every line is as strict as the parser wants it, whether a field *)
(* is there that is refused altogether, and the values of Content-Length   *)
(* and Expect, of which there may be several.                              *)
(*                                                                         *)
(* Digits have the base Base and a length is kept in a word whose largest  *)
(* value is MaxWord (10 and 2^64 - 1 in the code).                         *)
(***************************************************************************)
EXTENDS Naturals, Sequences

CONSTANTS Base, MaxWord

ASSUME BaseAssumption == Base \in Nat \ {0, 1}
ASSUME WordAssumption == MaxWord \in Nat

\* A character of a length: a digit, or something else.
Digits == 0..(Base - 1)
NotDigit == Base
Characters == Digits \cup {NotDigit}

\* What a request head may be.
RequestHeads ==
    [ended : BOOLEAN, oversized : BOOLEAN, strict : BOOLEAN, unsupported : BOOLEAN,
     lengths : Seq(Seq(Characters)), expects : Seq(STRING)]

Incomplete == "Incomplete"
Invalid == "Invalid"
NoLength == "NoLength"

\* Mutation: the word wraps around, as toULongLong() lets it.
ParseLengthWraps(raw) ==
    LET value[i \in 0..Len(raw)] ==
            IF i = 0 THEN [ok |-> raw # <<>>, n |-> 0]
            ELSE [ok |-> value[i - 1].ok /\ raw[i] \in Digits,
                  n |-> (value[i - 1].n * Base + raw[i]) % (MaxWord + 1)]
    IN value[Len(raw)]

\* The loop over the value of Content-Length: every digit is checked, and the
\* word is compared before it is multiplied.
ParseLength(raw) ==
    LET value[i \in 0..Len(raw)] ==
            IF i = 0 THEN [ok |-> raw # <<>>, n |-> 0]
            ELSE LET before == value[i - 1] IN
                 IF /\ before.ok
                    /\ raw[i] \in Digits
                    /\ raw[i] <= MaxWord
                    /\ before.n <= (MaxWord - raw[i]) \div Base
                 THEN [ok |-> TRUE, n |-> before.n * Base + raw[i]]
                 ELSE [ok |-> FALSE, n |-> 0]
    IN value[Len(raw)]

\* parseRequestHead().  Of several lengths or expectations none is believed.
Parse(head) ==
    IF head.oversized THEN Invalid
    ELSE IF ~head.ended THEN Incomplete
    ELSE IF \/ ~head.strict \/ head.unsupported
            \/ Len(head.lengths) > 1
            \/ \E i \in DOMAIN head.lengths : ~ParseLength(head.lengths[i]).ok
            \/ Len(head.expects) > 1
            \/ \E i \in DOMAIN head.expects : head.expects[i] # "100-continue"
    THEN Invalid
    ELSE IF head.lengths = <<>> THEN NoLength
    ELSE "Complete"

\* head.contentLength, when there is one.
ContentLength(head) == ParseLength(head.lengths[1]).n

\* What the sender of the head meant by it: the number, whatever its size.
Meant(raw) ==
    LET value[i \in 0..Len(raw)] ==
            IF i = 0 THEN 0 ELSE value[i - 1] * Base + raw[i]
    IN value[Len(raw)]
=============================================================================
