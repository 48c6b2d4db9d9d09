---------------------------- MODULE MCObjectBytes ----------------------------
(* Values for the constants of ObjectBytes.                                *)
EXTENDS ObjectBytes

Byte(x) == <<"byte", x, 0>>
Sizes(b, t) == <<"sizes", b, t>>
Copy(offset, size) == <<"copy", offset, size>>
Add(x) == <<"add", x, 0>>

Plain == {[type |-> "Commit", data |-> <<>>, baseNo |-> 0, baseID |-> 0],
          [type |-> "Blob", data |-> <<Byte(1), Byte(2)>>, baseNo |-> 0, baseID |-> 0],
          [type |-> "Blob", data |-> <<Byte(3), Byte(2), Byte(1)>>, baseNo |-> 0, baseID |-> 0]}

\* The first fits any base of two bytes, the second needs three.
Deltas == {<<Sizes(2, 3), Copy(1, 1), Add(3), Copy(0, 1)>>,
           <<Sizes(3, 2), Copy(1, 0)>>}

OnOffset == [type : {"OffsetDelta"}, data : Deltas, baseNo : {1, 2}, baseID : {0}]
OnID     == [type : {"RefDelta"}, data : Deltas, baseNo : {0}, baseID : {1, 2}]
\* An instruction whose first byte is 0, which Git keeps for later.
Reserved == [type |-> "OffsetDelta", data |-> <<Sizes(2, 1), <<"reserved", 0, 0>>, Add(1)>>,
             baseNo |-> 1, baseID |-> 0]

SomeObjects == Plain \cup OnOffset \cup {Reserved} \cup OnID
FirstBytes  == [id \in 1..3 |-> id \div 2]
SomeOrders  == {<<2, 3, 1>>}

\* a, a-, a0, aa and one with a NUL byte: a slash is between - and 0.
PathNames == {<<97>>, <<97, 45>>, <<97, 48>>, <<97, 97>>, <<97, 0>>}

\* As Git writes them, short, of a hundred hours less a minute and more, and
\* no zone at all.
Zones == {<<"+", 0, 5, 3, 0>>, <<"-", 5>>, <<"+", 9, 9, 9, 9>>, <<"0", 0>>, <<"-", 17>>,
          <<"+">>, <<"+", 0, 0, 0, 0, 0>>}

TreeLine(hash) == [key |-> "tree"] @@ hash
ParentLine(hash) == [key |-> "parent"] @@ hash
Hashes == {[hash |-> "h", ok |-> TRUE, canonical |-> TRUE],
           [hash |-> "h", ok |-> TRUE, canonical |-> FALSE],
           [hash |-> "h", ok |-> FALSE, canonical |-> FALSE]}

Person(key, user, good, written, zone) ==
    [key |-> key, user |-> user, unix |-> 7, ok |-> good, canonical |-> written, zone |-> zone]
Author == Person("author", "u", TRUE, TRUE, <<"+", 5>>)
Committer == Person("committer", "u", TRUE, TRUE, <<"+", 0, 0, 0, 0>>)
People(key) ==
    {Person(key, x, g, w, z) : x \in {"u", "NUL"}, g \in {TRUE}, w \in BOOLEAN, z \in Zones}
      \cup {Person(key, "u", FALSE, FALSE, <<"+", 5>>)}

\* What follows the committer line.
AfterCommitter == {Blank, Key("mergetag", "x"), Key(" ", "y"), Key("gpgsig", "s"), Key("note", "NUL")}
Tails == UNION {[1..n -> AfterCommitter] : n \in 0..4}
Parents == {<<>>} \cup {<<ParentLine(h)>> : h \in Hashes}

SomeForeignCommits ==
    {<<TreeLine(h)>> \o p \o <<Author, Committer, Blank>> : h \in Hashes, p \in Parents}
      \cup {<<TreeLine([hash |-> "h", ok |-> TRUE, canonical |-> TRUE]), a, c, Blank, Key("", "m")>> :
               a \in People("author"), c \in People("committer")}
      \cup {<<TreeLine([hash |-> "h", ok |-> TRUE, canonical |-> TRUE]), Author, Committer>> \o t : t \in Tails}
      \cup {<<>>, <<Author>>, <<TreeLine([hash |-> "h", ok |-> TRUE, canonical |-> TRUE]), Committer>>}

\* Times of zones that were and were not parsed, with seconds and of a hundred hours.
Times == {[unix |-> 7, zone |-> z[1], offset |-> z[2]] :
            z \in {<<<<"+", 5>>, 300>>, <<<<"+", 5>>, 3600>>, <<<<"L">>, 3208>>, <<<<"L">>, -59>>,
                   <<<<"L">>, -19800>>, <<<<"L">>, 360000>>, <<<<"+", 9, 9, 9, 9>>, 362340>>}}

SomeGivenCommits ==
    [Tree : {"h"}, Parents : {<<"h">>}, Author : {"u", "NUL"}, AuthorTime : Times,
     Committer : {"u"}, CommitTime : Times, Extra : {<<>>}, GPGSignature : {<<>>}, Message : {<<>>}]
      \cup
    [Tree : {"h"}, Parents : {<<>>, <<"h", "i">>}, Author : {"u"}, AuthorTime : {NoTime},
     Committer : {"u", "NUL"}, CommitTime : {NoTime},
     Extra : UNION {[1..n -> AfterCommitter] : n \in 0..2},
     GPGSignature : {<<>>, <<"s">>, <<"s", "">>, <<"s", "unterminated">>}, Message : {<<>>, <<Blank>>}]

=============================================================================
