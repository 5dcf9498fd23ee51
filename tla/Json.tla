----------------------------------- MODULE Json -----------------------------------
(***************************************************************************)
(* src/json.rs: the recursive-descent parser and the compact writer, over  *)
(* tokens.  Blanks and the insides of strings and numbers are left out: a  *)
(* token is a bracket, a comma, a colon, a string, or an atom (a number,   *)
(* true, false or null); "end" is the end of the text.                     *)
(*                                                                         *)
(* The calls of value, object and array that are open are the frames of a  *)
(* stack.  The text is made up as it is read, so that all texts of up to   *)
(* MaxTokens tokens are parsed.                                            *)
(***************************************************************************)
EXTENDS Naturals, Sequences, SequencesExt

CONSTANTS
    MaxDepth,       \* 128
    MaxTokens       \* bound: length of a text

VARIABLES
    frames,         \* the open arrays and objects, the innermost last
    expect,         \* where the parser reads its next token; "ok" or "error" when it has returned
    read,           \* the tokens read so far
    tree            \* the value that parse returns

json == <<frames, expect, read, tree>>

Strings == {"s", "t"}
Before(j, k) == j = "s" /\ k = "t"
Tokens == Strings \cup {"atom", "{", "}", "[", "]", ":", ",", "end"}

Atom == <<"atom">>
String(k) == <<"string", k>>
Array(values) == <<"array", values>>
Object(values) == <<"object", values>>

\* parse
Start == frames = <<>> /\ expect = "value" /\ read = <<>> /\ tree = Atom

Frame(kind) == [kind |-> kind, items |-> <<>>, fields |-> [k \in {} |-> Atom], key |-> "s"]
Top == Last(frames)
At(l) == expect' = l /\ UNCHANGED tree
Error == At("error") /\ UNCHANGED frames

\* A value has been read, with the frames `open` around it.  A key that comes
\* again replaces the field.
Complete(v, open) ==
    IF open = <<>>
    THEN frames' = open /\ expect' = "trailing" /\ tree' = v
    ELSE LET f == Last(open)
             g == IF f.kind = "array"
                  THEN [f EXCEPT !.items = Append(@, v)]
                  ELSE [f EXCEPT !.fields = [k \in DOMAIN @ \cup {f.key} |-> IF k = f.key THEN v ELSE @[k]]]
         IN  frames' = Append(Front(open), g) /\ At("after")

\* Altered form: the depth is counted one too low.
OpenTooDeep(kind, next) ==
    IF Len(frames) > MaxDepth THEN Error ELSE frames' = Append(frames, Frame(kind)) /\ At(next)

Open(kind, next) ==
    IF Len(frames) >= MaxDepth THEN Error ELSE frames' = Append(frames, Frame(kind)) /\ At(next)

Value(t) ==
    CASE t = "{" -> Open("object", "first key")
      [] t = "[" -> Open("array", "first item")
      [] t = "atom" -> Complete(Atom, frames)
      [] t \in Strings -> Complete(String(t), frames)
      [] OTHER -> Error

CloseArray == Complete(Array(Top.items), Front(frames))
CloseObject == Complete(Object(Top.fields), Front(frames))

Key(t) ==
    IF t \in Strings
    THEN frames' = Append(Front(frames), [Top EXCEPT !.key = t]) /\ At("colon")
    ELSE Error

\* After a value in an array or object: the end of it, or a comma.
After(t) ==
    CASE Top.kind = "array" /\ t = "]" -> CloseArray
      [] Top.kind = "array" /\ t = "," -> At("value") /\ UNCHANGED frames
      [] Top.kind = "object" /\ t = "}" -> CloseObject
      [] Top.kind = "object" /\ t = "," -> At("key") /\ UNCHANGED frames
      [] OTHER -> Error

\* The parser goes on to the token t.
Read(t) ==
    /\ Len(read) < MaxTokens \/ t = "end"
    /\ read' = Append(read, t)
    /\ \/ expect = "value" /\ Value(t)
       \/ expect = "first item" /\ IF t = "]" THEN CloseArray ELSE Value(t)
       \/ expect = "first key" /\ IF t = "}" THEN CloseObject ELSE Key(t)
       \/ expect = "key" /\ Key(t)
       \/ expect = "colon" /\ (IF t = ":" THEN At("value") ELSE At("error")) /\ UNCHANGED frames
       \/ expect = "after" /\ After(t)
       \/ expect = "trailing" /\ (IF t = "end" THEN At("ok") ELSE At("error")) /\ UNCHANGED frames

Parsed == expect \in {"ok", "error"} /\ UNCHANGED json

Parse == (\E t \in Tokens : Read(t)) \/ Parsed

-----------------------------------------------------------------------------
(* The writer                                                              *)

Joined(texts) == FoldLeft(LAMBDA a, b : IF a = <<>> THEN b ELSE a \o <<",">> \o b, <<>>, texts)

\* Display for JsonValue; a BTreeMap gives its keys in order.
RECURSIVE Display(_)
Display(v) ==
    CASE v[1] = "atom" -> <<"atom">>
      [] v[1] = "string" -> <<v[2]>>
      [] v[1] = "array" -> <<"[">> \o Joined([i \in DOMAIN v[2] |-> Display(v[2][i])]) \o <<"]">>
      [] v[1] = "object" ->
            LET keys == SetToSortSeq(DOMAIN v[2], Before)
            IN  <<"{">> \o Joined([i \in DOMAIN keys |-> <<keys[i], ":">> \o Display(v[2][keys[i]])]) \o <<"}">>

-----------------------------------------------------------------------------
(* Reference: the grammar of RFC 8259, and what its texts mean             *)

\* Lists of parts with commas between them, of n tokens in all: a list is a part,
\* or a part followed by a list.  A text is a pair of tokens and meaning.
Lists(head, tail, join(_, _), n) ==
    UNION {{<<p[1] \o <<",">> \o r[1], join(p[2], r[2])>> : p \in head[i], r \in tail[n - 1 - i]} : i \in 1 .. n - 2}

\* Later fields replace earlier ones.
Override(f, g) == [k \in DOMAIN f \cup DOMAIN g |-> IF k \in DOMAIN g THEN g[k] ELSE f[k]]

\* grammar[n]: the values of n tokens, and the lists of n tokens of values and fields
grammar[n \in 0 .. MaxTokens] ==
    LET short(m, what) == IF m < 1 THEN {} ELSE grammar[m][what]
        inside(m, what, none) == IF m = 0 THEN {<<<<>>, none>>} ELSE short(m, what)
        values == IF n = 1
                  THEN {<<<<"atom">>, Atom>>} \cup {<<<<k>>, String(k)>> : k \in Strings}
                  ELSE {<<<<"[">> \o s[1] \o <<"]">>, Array(s[2])>> : s \in inside(n - 2, "items", <<>>)}
                       \cup {<<<<"{">> \o s[1] \o <<"}">>, Object(s[2])>> : s \in inside(n - 2, "fields", <<>>)}
        item == [i \in 1 .. n - 1 |-> {<<v[1], <<v[2]>>>> : v \in short(i, "values")}]
        field(m) == {<<<<k, ":">> \o v[1], [j \in {k} |-> v[2]]>> : k \in Strings, v \in short(m - 2, "values")}
        shorter(what) == [i \in 0 .. n - 1 |-> short(i, what)]
    IN  [values |-> values,
         items |-> {<<v[1], <<v[2]>>>> : v \in values}
                   \cup Lists(item, shorter("items"), LAMBDA x, y : x \o y, n),
         fields |-> field(n)
                    \cup Lists([i \in 1 .. n - 1 |-> field(i)], shorter("fields"), Override, n)]

\* How deep a text is nested after its first n tokens
Nesting(s, n) ==
    Len(SelectSeq(SubSeq(s, 1, n), LAMBDA t : t \in {"[", "{"}))
        - Len(SelectSeq(SubSeq(s, 1, n), LAMBDA t : t \in {"]", "}"}))

Meanings == {m \in UNION {grammar[n].values : n \in 1 .. MaxTokens} :
                \A n \in DOMAIN m[1] : Nesting(m[1], n) <= MaxDepth}

\* The texts of the grammar and what they begin with
Beginnings == UNION {{SubSeq(m[1] \o <<"end">>, 1, n) : n \in 0 .. Len(m[1]) + 1} : m \in Meanings}

-----------------------------------------------------------------------------
(* Properties                                                              *)

\* "A strict parser" (README.md:17): it accepts only texts of the grammar that are
\* nested no deeper than the limit, and returns what they mean; it gives up only
\* at a token with which no such text goes on.  The text that the writer
\* makes of the value has the same meaning.
ParsesTheGrammar ==
    /\ expect = "ok" => /\ <<Front(read), tree>> \in Meanings
                        /\ <<Display(tree), tree>> \in Meanings
    /\ expect = "error" => read \notin Beginnings
=============================================================================
