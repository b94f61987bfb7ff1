----------------------------- MODULE WebParser -----------------------------
(***************************************************************************)
(* The parser of request bodies (wifi/web_request_parser.cpp), and the     *)
(* grammar of a body stated without it.                                    *)
(*                                                                         *)
(* A body is a sequence of JSON tokens: a punctuation mark, a string, or   *)
(* "?" for what the tokenizer refuses.  Lengths count tokens where the     *)
(* code counts bytes.                                                      *)
(***************************************************************************)
EXTENDS Integers, Sequences, FiniteSets

CONSTANTS
    MaxFields,      \* kWebRequestMaxFieldCount
    MaxBody         \* kWebRequestMaxBodySize, in tokens

ASSUME ParserAssumption == MaxFields \in Nat /\ MaxBody \in Nat

ObjectStart == "{"
ObjectEnd == "}"
Colon == ":"
Comma == ","
Error == "?"
IsString(token) == token \notin {ObjectStart, ObjectEnd, Colon, Comma, Error}

Start == [expect |-> "object", key |-> "", verb |-> "", fields |-> <<>>]

\* A member: the verb, or one more field.
Member(r, value) ==
    IF r.key = "command" THEN [r EXCEPT !.expect = "separator", !.verb = value]
    ELSE IF Len(r.fields) >= MaxFields THEN [r EXCEPT !.expect = "bad"]
    ELSE [r EXCEPT !.expect = "separator", !.fields = Append(@, <<r.key, value>>)]

\* Mutated form: a member may follow another without a comma.
ReadToken_NoComma(r, token) ==
    CASE r.expect = "object" /\ token = ObjectStart -> [r EXCEPT !.expect = "key"]
      [] r.expect \in {"key", "separator"} /\ token = ObjectEnd -> [r EXCEPT !.expect = "end"]
      [] r.expect \in {"key", "separator"} /\ IsString(token) ->
            [r EXCEPT !.expect = "colon", !.key = token]
      [] r.expect = "colon" /\ token = Colon -> [r EXCEPT !.expect = "value"]
      [] r.expect = "value" /\ IsString(token) -> Member(r, token)
      [] r.expect = "separator" /\ token = Comma -> [r EXCEPT !.expect = "key"]
      [] r.expect = "end" -> r
      [] OTHER -> [r EXCEPT !.expect = "bad"]

\* One turn of the parser's loop.  What follows the object is not looked at.
ReadToken(r, token) ==
    CASE r.expect = "object" /\ token = ObjectStart -> [r EXCEPT !.expect = "key"]
      [] r.expect \in {"key", "separator"} /\ token = ObjectEnd -> [r EXCEPT !.expect = "end"]
      [] r.expect = "key" /\ IsString(token) -> [r EXCEPT !.expect = "colon", !.key = token]
      [] r.expect = "colon" /\ token = Colon -> [r EXCEPT !.expect = "value"]
      [] r.expect = "value" /\ IsString(token) -> Member(r, token)
      [] r.expect = "separator" /\ token = Comma -> [r EXCEPT !.expect = "key"]
      [] r.expect = "end" -> r
      [] OTHER -> [r EXCEPT !.expect = "bad"]

\* What the parser holds after each number of tokens.
Progress(body) ==
    LET after[i \in 0..Len(body)] ==
          IF i = 0 THEN Start ELSE ReadToken(after[i - 1], body[i])
    IN after

\* webRequestParse; ok is its result.
Parse(body) ==
    LET r == Progress(body)[Len(body)] IN
    [ok |-> Len(body) <= MaxBody /\ r.expect = "end" /\ r.verb # "",
     verb |-> r.verb, fields |-> r.fields]

----------------------------------------------------------------------------
(* The grammar: an object of n members whose last may be followed by a     *)
(* comma, and after which anything may come.                               *)

TokenAt(body, i, token) == i \in DOMAIN body /\ body[i] = token

MemberAt(body, m) ==
    /\ Len(body) >= 4 * m
    /\ IsString(body[4 * m - 2]) /\ body[4 * m - 1] = Colon /\ IsString(body[4 * m])

IsObject(body, n) ==
    /\ TokenAt(body, 1, ObjectStart)
    /\ \A m \in 1..n : MemberAt(body, m)
    /\ \A m \in 1..(n - 1) : TokenAt(body, 4 * m + 1, Comma)
    /\ IF n = 0 THEN TokenAt(body, 2, ObjectEnd)
       ELSE \/ TokenAt(body, 4 * n + 1, ObjectEnd)
            \/ TokenAt(body, 4 * n + 1, Comma) /\ TokenAt(body, 4 * n + 2, ObjectEnd)

\* The members that name the verb, and those that do not.
Verbs(body, n) == {m \in 1..n : body[4 * m - 2] = "command"}
Fields(body, n) == {m \in 1..n : body[4 * m - 2] # "command"}

Greatest(S) == CHOOSE m \in S : \A k \in S : k <= m

\* The last verb named.
VerbOf(body, n) ==
    IF Verbs(body, n) = {} THEN "" ELSE body[4 * Greatest(Verbs(body, n))]

=============================================================================
