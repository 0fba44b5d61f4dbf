------------------------------- MODULE MCJson -------------------------------
(***************************************************************************)
(* Instances of the JSON parser and of the printing of strings for TLC.    *)
(***************************************************************************)
EXTENDS StringToJson, JsonMeaning

\* What may have been opened before the call: an array with an item, an object
\* with a key in an array, and one without, where no value is expected.
Frame(kind, items, key) == [kind |-> kind, items |-> items, key |-> key]

Earlier == {<<Frame("array", <<[scalar |-> <<1>>]>>, <<>>)>>,
            <<Frame("array", <<>>, <<>>), Frame("object", <<>>, <<<<97>>>>)>>,
            <<Frame("object", <<>>, <<>>)>>}

Strings(pieces, n) == {FlattenSeq(p) : p \in UNION {[1..m -> pieces] : m \in 0..n}}

Quoted(chars) == <<Quote>> \o chars \o <<Quote>>

A == <<97>>
U(digits) == <<Backslash, 117>> \o digits

Structures == Strings({<<c>> : c \in Punctuation} \cup {Quoted(A), <<49>>}, 4)

\* Longer ones, up to two containers and two members.
Items == {<<>>, <<49>>, <<CloseSquare>>, <<OpenSquare, CloseSquare>>, <<OpenCurly, CloseCurly>>,
          <<49, Comma>>, <<49, Comma, 50>>, <<Space, Quote, 97, Quote, 9>>}

Members == {Quoted(A) \o <<Space, Colon>> \o item : item \in Items}
           \cup {Quoted(A) \o <<Colon, 49, Comma>> \o Quoted(k) \o <<10, Colon, 50>> : k \in {A, <<>>}}

Bracketed(brackets, inner) == {<<b[1]>> \o t \o <<b[2]>> : b \in brackets, t \in inner}

Brackets == {OpenSquare, OpenCurly} \X {CloseSquare, CloseCurly, Space}

\* One container or two, closed with the wrong bracket or not at all.
Nested ==
    LET once == Bracketed(Brackets, Items \cup Members) IN
    once \cup Bracketed(Brackets, {Quoted(A) \o <<Colon>> \o t : t \in once} \cup once)

\* Bodies of strings.
Body == Strings({A, <<195>>, <<169>>, <<10>>, <<Quote>>, <<Backslash>>, <<Backslash, Quote>>,
                 <<Backslash, 110>>, U(<<48, 48, 52, 49>>), U(<<50, 48>>)}, 3)
        \cup {U(h) : h \in {<<48, 48, 55, 70>>, <<48, 48, 56, 48>>, <<48, 55, 102, 102>>,
                            <<48, 56, 48, 48>>, <<68, 55, 70, 70>>, <<102, 102, 102, 102>>,
                            <<48, 48, 48, 48>>, <<100, 99, 48, 48>>, <<48, 48, 71, 48>>}}

High == U(<<68, 56, 51, 100>>)

Pairs == {High \o t : t \in {<<>>, A, U(<<48, 48, 52, 49>>), U(<<100, 101, 48, 48>>), U(<<68, 69, 48>>)}}
         \cup {U(<<68, 56, 48, 48>>) \o U(<<68, 67, 48, 48>>), U(<<68, 56, 51, 54>>) \o U(<<68, 67, 48, 48>>)}

StringTexts ==
    {Quoted(b) : b \in Body}
    \cup {<<OpenCurly>> \o Quoted(b) \o <<Colon, 49, CloseCurly>> : b \in Body \cup Pairs}
    \cup {<<OpenSquare>> \o Quoted(b) \o <<Comma>> \o Quoted(A) \o <<CloseSquare>> : b \in Pairs}

NumberTexts ==
    LET numbers == Strings({<<MinusSign>>, <<Zero>>, <<49>>, <<Dot>>, <<101>>, <<PlusSign>>}, 4) IN
    numbers \cup Bracketed({<<OpenSquare, CloseSquare>>}, numbers)

LiteralTexts ==
    {SubSeq(word, 1, n) \o t : word \in {True, False, Null}, n \in 1..4, t \in {<<>>, <<Space>>, A}} \cup {False, False \o <<Space>>}
    \cup Bracketed({<<OpenSquare, CloseSquare>>}, {True, False, Null, True \o <<Comma>> \o Null})

AtRoot(texts) == {[text |-> t, open |-> <<>>] : t \in texts}

MCJsonCalls ==
    AtRoot(Structures \cup Nested \cup StringTexts \cup NumberTexts \cup LiteralTexts)
    \cup {[text |-> t, open |-> e] :
            t \in Bracketed(Brackets, Items) \cup {True, Null, <<49, CloseSquare>>}, e \in Earlier}

\* Strings of up to four characters: plain ones, one of two bytes, and of each kind
\* that is escaped.
MCJsonStrings == Strings({A, <<195, 169>>, <<Quote>>, <<Backslash>>, <<10>>, <<31>>}, 4)
                 \cup {<<c>> : c \in 0..127}
=============================================================================
