----------------------------- MODULE ObjectCommit -----------------------------
(***************************************************************************)
(* object.Commit (object/commit.go): a caller fills one and serializes it, *)
(* or what another program wrote is parsed, line by line.                  *)
(*                                                                         *)
(* Bytes are lines.  A line has a key, and what the code tells apart in    *)
(* the rest of it: whether it parses (ok), whether it is how this package  *)
(* would write the same (canonical), and its text, "NUL" for one with a    *)
(* byte that no header may hold.  A header line that does not end is as if *)
(* it were not there: no parser accepts it.                                *)
(***************************************************************************)
EXTENDS Integers, Sequences

CONSTANTS
    ForeignCommits, \* bytes of other programs, sequences of lines
    GivenCommits    \* Commits that callers fill

VARIABLES
    commit,         \* the Commit
    lines,          \* the bytes UnmarshalBinary has left
    commitState,    \* "given", the part of the header a parser looks at,
                    \* "parsed" or "refused"
    commitOrigin    \* what the bytes being parsed are from

commitVars == <<commit, lines, commitState, commitOrigin>>

NoText == ""
Indent == " "       \* what a line that continues a signature starts with

Key(key, text) == [key |-> key, text |-> text]
Blank == Key(NoText, NoText)

IsSequence(s) == Len(s) \in Nat /\ s = [i \in 1..Len(s) |-> s[i]]

-----------------------------------------------------------------------------
(* Zones.  A zone name is a sign and digits, as a sequence; <<"U">> stands  *)
(* for UTC, a name that is no offset.                                      *)

\* The digit at a place counted from the end, zero when there is none.
tzDigit(digits, i) == IF i <= Len(digits) THEN digits[Len(digits) + 1 - i] ELSE 0

\* Seconds east of UTC.
parseTZOffset(name) ==
    LET digits  == Tail(name)
        hours   == 10 * tzDigit(digits, 4) + tzDigit(digits, 3)
        minutes == 10 * tzDigit(digits, 2) + tzDigit(digits, 1)
        seconds == 60 * (60 * hours + minutes)
    IN IF \/ Len(name) \notin 2..5
          \/ name[1] \notin {"+", "-"}
          \/ \E i \in 2..Len(name) : name[i] \notin 0..9
       THEN [ok |-> FALSE, offset |-> 0]
       ELSE [ok |-> TRUE, offset |-> IF name[1] = "-" THEN -seconds ELSE seconds]

HundredHours == 360000

Magnitude(n) == IF n < 0 THEN -n ELSE n

\* Time.Format("-0700"): seconds are dropped, and there are as many digits of
\* hours as it takes.
Format(offset) ==
    LET minutes == Magnitude(offset) \div 60
        hours   == minutes \div 60
        tens    == <<(hours \div 10) % 10, hours % 10,
                     (minutes % 60) \div 10, minutes % 10>>
    IN <<IF offset <= -60 THEN "-" ELSE "+">>
          \o (IF hours < 100 THEN tens ELSE <<hours \div 100>> \o tens)

\* Mutant: the name of the zone is not looked at.
FormatOffset(t) == Format(t.offset)

tzOffset(t) ==
    LET got == parseTZOffset(t.zone)
    IN IF got.ok /\ got.offset = t.offset THEN t.zone ELSE Format(t.offset)

-----------------------------------------------------------------------------
(* MarshalBinary.                                                          *)

HexLine(key, hash) == [key |-> key, hash |-> hash, ok |-> TRUE, canonical |-> TRUE]

\* consumeUser finds the timestamp and the zone from the end of the line.
UserLine(key, user, t) ==
    [key |-> key, user |-> user, unix |-> t.unix, ok |-> TRUE, canonical |-> TRUE,
     zone |-> tzOffset(t)]

\* The first line of a signature follows the key, the others a space.
writeGPGSignature(sig) ==
    [i \in 1..Len(sig) |-> Key(IF i = 1 THEN "gpgsig" ELSE Indent, sig[i])]

MarshalLines(c) ==
    <<HexLine("tree", c.Tree)>>
      \o [i \in 1..Len(c.Parents) |-> HexLine("parent", c.Parents[i])]
      \o <<UserLine("author", c.Author, c.AuthorTime),
           UserLine("committer", c.Committer, c.CommitTime)>>
      \o c.Extra
      \o writeGPGSignature(c.GPGSignature)
      \o <<Blank>> \o c.Message

HasNUL(text) == text = "NUL"

\* CommitFields.IsValid
IsValid(fields) ==
    \A i \in 1..Len(fields) : fields[i] # Blank /\ ~HasNUL(fields[i].text)

\* A signature's last line must end; "unterminated" stands for one that does not.
CommitMarshals(c) ==
    /\ ~HasNUL(c.Author)
    /\ ~HasNUL(c.Committer)
    /\ IsValid(c.Extra)
    /\ \A i \in 1..Len(c.GPGSignature) : c.GPGSignature[i] # "unterminated"

-----------------------------------------------------------------------------
(* UnmarshalBinary.                                                        *)

NoTime == [unix |-> 0, zone |-> <<"U">>, offset |-> 0]
NoCommit ==
    [Tree |-> NoText, Parents |-> <<>>, Author |-> NoText, AuthorTime |-> NoTime,
     Committer |-> NoText, CommitTime |-> NoTime, Extra |-> <<>>,
     GPGSignature |-> <<>>, Message |-> <<>>]

(* What the fields hold.  Time and commit are records of these fields, and *)
(* no line of a caller is the end of the bytes.                            *)
IsTime(t) ==
    /\ t = [unix |-> t.unix, zone |-> t.zone, offset |-> t.offset]
    /\ IsSequence(t.zone)
    /\ t.offset \in Int

IsCommit(c) ==
    /\ c = [Tree |-> c.Tree, Parents |-> c.Parents, Author |-> c.Author,
            AuthorTime |-> c.AuthorTime, Committer |-> c.Committer,
            CommitTime |-> c.CommitTime, Extra |-> c.Extra,
            GPGSignature |-> c.GPGSignature, Message |-> c.Message]
    /\ IsSequence(c.Parents) /\ IsSequence(c.Extra)
    /\ IsSequence(c.GPGSignature) /\ IsSequence(c.Message)
    /\ IsTime(c.AuthorTime) /\ IsTime(c.CommitTime)
    /\ \A i \in 1..Len(c.Extra) : c.Extra[i].key # "end"

(* A line that parses and is written as this package writes it has no more *)
(* to it than was parsed; a line of a signature is its text, and ends.     *)
IsLine(l) ==
    /\ l.key \in {"tree", "parent"} /\ l.ok /\ l.canonical => l = HexLine(l.key, l.hash)
    /\ l.key \in {"author", "committer"} =>
         /\ IsSequence(l.zone)
         /\ l.ok /\ l.canonical =>
              l = [key |-> l.key, user |-> l.user, unix |-> l.unix, ok |-> TRUE,
                   canonical |-> TRUE, zone |-> l.zone]
    /\ l.key \in {"gpgsig", Indent} => l = Key(l.key, l.text) /\ l.text # "unterminated"

ASSUME CommitAssumption ==
    /\ \A c \in GivenCommits : IsCommit(c)
    /\ \A b \in ForeignCommits : IsSequence(b) /\ \A i \in 1..Len(b) : IsLine(b[i])

From(by, bytes, c) == [by |-> by, bytes |-> bytes, commit |-> c]

CommitInit ==
    \/ /\ commit \in GivenCommits
       /\ lines = <<>>
       /\ commitState = "given"
       /\ commitOrigin = From("caller", <<>>, commit)
    \/ /\ commit = NoCommit
       /\ lines \in ForeignCommits
       /\ commitState = "tree"
       /\ commitOrigin = From("foreign", lines, NoCommit)

\* The bytes go to a parser; what was parsed is serialized again, once.
CommitMarshalBinary ==
    /\ commitState \in {"given", "parsed"}
    /\ commitOrigin.by # "marshal"
    /\ CommitMarshals(commit)
    /\ lines' = MarshalLines(commit)
    /\ commitOrigin' = From("marshal", lines', commit)
    /\ commit' = NoCommit
    /\ commitState' = "tree"

Next1 == IF lines = <<>> THEN Key("end", NoText) ELSE Head(lines)

Refused == commitState' = "refused" /\ UNCHANGED <<commit, lines, commitOrigin>>

\* The line is used up, and the parser looks for what may come next.
Consumed(c, next) ==
    /\ commit' = c
    /\ lines' = Tail(lines)
    /\ commitState' = next
    /\ UNCHANGED commitOrigin

consumeTree ==
    /\ commitState = "tree"
    /\ IF Next1.key = "tree" /\ Next1.ok
       THEN Consumed([NoCommit EXCEPT !.Tree = Next1.hash], "parents")
       ELSE Refused

consumeParent ==
    /\ commitState = "parents"
    /\ Next1.key = "parent"
    /\ IF Next1.ok
       THEN Consumed([commit EXCEPT !.Parents = Append(@, Next1.hash)], "parents")
       ELSE Refused

consumeUser(line) ==
    LET tz == parseTZOffset(line.zone)
    IN [ok |-> line.ok /\ tz.ok, user |-> line.user,
        time |-> [unix |-> line.unix, zone |-> line.zone, offset |-> tz.offset]]

consumeAuthor ==
    /\ commitState = "parents"
    /\ Next1.key # "parent"
    /\ IF Next1.key = "author" /\ consumeUser(Next1).ok
       THEN LET u == consumeUser(Next1)
            IN Consumed([commit EXCEPT !.Author = u.user, !.AuthorTime = u.time], "committer")
       ELSE Refused

consumeCommitter ==
    /\ commitState = "committer"
    /\ IF Next1.key = "committer" /\ consumeUser(Next1).ok
       THEN LET u == consumeUser(Next1)
            IN Consumed([commit EXCEPT !.Committer = u.user, !.CommitTime = u.time], "extra")
       ELSE Refused

\* Any line, until a signature or a blank line.
consumeExtra ==
    /\ commitState = "extra"
    /\ Next1.key # "gpgsig"
    /\ IF Next1.key = "end" THEN Refused
       ELSE IF Next1 = Blank THEN Consumed(commit, "message")
       ELSE Consumed([commit EXCEPT !.Extra = Append(@, Next1)], "extra")

\* consumeSignature: the line of the key, then lines that start with a space.
consumeGPGSig ==
    /\ commitState = "extra"
    /\ Next1.key = "gpgsig"
    /\ Consumed([commit EXCEPT !.GPGSignature = <<Next1.text>>], "signature")

consumeSignature ==
    /\ commitState = "signature"
    /\ Next1.key = Indent
    /\ Consumed([commit EXCEPT !.GPGSignature = Append(@, Next1.text)], "signature")

\* Nothing else may follow a signature.
SignatureEnds ==
    /\ commitState = "signature"
    /\ Next1.key # Indent
    /\ IF Next1 = Blank THEN Consumed(commit, "message") ELSE Refused

consumeMessage ==
    /\ commitState = "message"
    /\ commit' = [commit EXCEPT !.Message = lines]
    /\ lines' = <<>>
    /\ commitState' = "parsed"
    /\ UNCHANGED commitOrigin

CommitNext ==
    \/ CommitMarshalBinary
    \/ consumeTree \/ consumeParent \/ consumeAuthor \/ consumeCommitter
    \/ consumeExtra \/ consumeGPGSig \/ consumeSignature \/ SignatureEnds
    \/ consumeMessage

CommitSpec == CommitInit /\ [][CommitNext]_commitVars

-----------------------------------------------------------------------------

\* The zone becomes its name, and loses its seconds.
WrittenTime(t) ==
    LET sign == IF t.offset < 0 THEN -1 ELSE 1
    IN [unix |-> t.unix, zone |-> tzOffset(t), offset |-> sign * 60 * (Magnitude(t.offset) \div 60)]

Written(c) == [c EXCEPT !.AuthorTime = WrittenTime(@), !.CommitTime = WrittenTime(@)]

(* No digits are left for a zone of a hundred hours that was not parsed,   *)
(* and an extra header that is a signature is read back as one.            *)
Writable(c) ==
    /\ \A t \in {c.AuthorTime, c.CommitTime} :
         Magnitude(t.offset) < HundredHours \/ parseTZOffset(t.zone) = [ok |-> TRUE, offset |-> t.offset]
    /\ \A i \in 1..Len(c.Extra) : c.Extra[i].key # "gpgsig"

Canonical(line) == line.key \in {"tree", "parent", "author", "committer"} => line.canonical

(***************************************************************************)
(* A commit that is serialized is read back as it was.  A commit that was  *)
(* parsed has the bytes, and so the SHA1, of what it was parsed from, if   *)
(* hashes and timestamps there are written as Git does; it serializes      *)
(* unless it holds a NUL byte.                                             *)
(***************************************************************************)
CommitRoundTrip ==
    LET readBack == commitOrigin.by = "marshal" /\ Writable(commitOrigin.commit)
        reread == commitOrigin.by = "foreign" /\ commitState = "parsed"
        header == SubSeq(commitOrigin.bytes, 1, Len(commitOrigin.bytes) - Len(commit.Message))
        noNUL == /\ ~HasNUL(commit.Author)
                 /\ ~HasNUL(commit.Committer)
                 /\ \A i \in 1..Len(commit.Extra) : ~HasNUL(commit.Extra[i].text)
    IN /\ readBack => commitState # "refused"
       /\ readBack /\ commitState = "parsed" => commit = Written(commitOrigin.commit)
       /\ reread /\ noNUL => CommitMarshals(commit) /\ Writable(commit)
       /\ reread /\ (\A i \in 1..Len(header) : Canonical(header[i]))
             => MarshalLines(commit) = commitOrigin.bytes
=============================================================================
