------------------------------ MODULE ObjectTree ------------------------------
(***************************************************************************)
(* object.Tree (object/tree.go): a caller builds and sorts a tree,         *)
(* serializes it, parses what another program wrote, and searches it.      *)
(*                                                                         *)
(* A name is the sequence of its bytes, since the order of a tree is about *)
(* bytes: Git compares a directory as if its name ended in a slash.  The   *)
(* object ID of an entry is never looked at and is left out.               *)
(***************************************************************************)
EXTENDS Naturals, Sequences

CONSTANTS
    Names,      \* names of files and directories
    Modes,      \* entry modes
    DirModes,   \* those of directories
    MaxEntries  \* bound on the entries of a tree

Slash == 47
NUL == 0

(* A name is one component of a path.                                      *)
ASSUME TreeAssumption ==
    /\ Names \subseteq {s \in Seq(0..255) : \A i \in 1..Len(s) : s[i] # Slash}
    /\ DirModes \subseteq Modes

TreeEntry == [Name : Names, Mode : Modes]

(* An entry as bytes: the mode is octal digits that may start with zeros   *)
(* or be no number, the name ends at a NUL, and the bytes may end early.   *)
RawEntry == [Name : {s \in Names : \A i \in 1..Len(s) : s[i] # NUL}, Mode : Modes,
             padded : BOOLEAN, ok : BOOLEAN]

VARIABLES
    tree,      \* the Tree
    src,       \* the bytes UnmarshalBinary has left
    treeState, \* "given": built by the caller; "parsing"; "checked": Sort or
               \* UnmarshalBinary returned nil; "refused": one returned an error
    origin     \* where the Tree is from: the caller, another program's bytes
               \* raw, or MarshalBinary's of a Tree in a treeState

treeVars == <<tree, src, treeState, origin>>

-----------------------------------------------------------------------------

IsDir(m) == m \in DirModes

(* Go's < on strings.                                                      *)
StringLess(s, t) ==
    \E k \in 0..Len(s) :
        /\ k < Len(t)
        /\ \A j \in 1..k : s[j] = t[j]
        /\ k = Len(s) \/ s[k + 1] < t[k + 1]

(* A directory's name is logically extended with a slash.                  *)
Logical(name, isDir) == IF isDir THEN Append(name, Slash) ELSE name

treeEntryLess(name1, isDir1, name2, isDir2) ==
    LET common == IF Len(name2) < Len(name1) THEN Len(name2) ELSE Len(name1)
        s1 == SubSeq(name1, 1, common)
        s2 == SubSeq(name2, 1, common)
        l1 == IF common < Len(name1) THEN name1 ELSE Logical(name1, isDir1)
        l2 == IF common < Len(name2) THEN name2 ELSE Logical(name2, isDir2)
    IN IF s1 # s2 THEN StringLess(s1, s2)
       ELSE IF /\ Len(l1) > common
               /\ Len(l2) > common
               /\ l1[common + 1] # l2[common + 1]
            THEN l1[common + 1] < l2[common + 1]
            ELSE Len(l1) < Len(l2)

EntryLess(e, f) == treeEntryLess(e.Name, IsDir(e.Mode), f.Name, IsDir(f.Mode))

(* Tree.search: the first entry that is not before the name, by sort.Search,  *)
(* and whether it has that name.                                           *)
FirstNotLess(t, name, isDir) ==
    CHOOSE i \in 1..(Len(t) + 1) :
        /\ \A j \in 1..(i - 1) : treeEntryLess(t[j].Name, IsDir(t[j].Mode), name, isDir)
        /\ i <= Len(t) => ~treeEntryLess(t[i].Name, IsDir(t[i].Mode), name, isDir)

search(t, name, isDir) ==
    LET i == FirstNotLess(t, name, isDir)
    IN [i |-> i, ok |-> i <= Len(t) /\ t[i].Name = name]

NotFound == [Name |-> <<>>, Mode |-> "none"]

(* Tree.Search: as a file, then as a directory in the rest of the tree.    *)
Search(t, name) ==
    LET asFile == search(t, name, FALSE)
        rest == SubSeq(t, asFile.i + 1, Len(t))
        asDir == search(rest, name, TRUE)
    IN IF asFile.ok THEN t[asFile.i]
       ELSE IF asFile.i < Len(t) /\ asDir.ok THEN rest[asDir.i]
       ELSE NotFound

(* Mutant: only neighbours are compared.                                   *)
LastRepeatsNeighbour(t) ==
    Len(t) >= 2 /\ t[Len(t) - 1].Name = t[Len(t)].Name

isLastDuplicated(t) ==
    LET n == Len(t)
    IN /\ n >= 2
       /\ \/ t[n - 1].Name = t[n].Name
          \/ /\ IsDir(t[n].Mode)
             /\ search(SubSeq(t, 1, n - 2), t[n].Name, FALSE).ok

-----------------------------------------------------------------------------

Origin(by, raw, t, state) == [by |-> by, raw |-> raw, tree |-> t, state |-> state]
ByCaller == Origin("caller", <<>>, <<>>, "given")

(* Parsing ends at an entry that is not ok; one mode with leading zeros    *)
(* makes the bytes differ.                                                 *)
ForeignBytes ==
    {raw \in UNION {[1..n -> RawEntry] : n \in 0..MaxEntries} :
        \A i \in 1..Len(raw) : /\ ~raw[i].ok => i = Len(raw)
                               /\ raw[i].padded => i = 1}

TreeInit ==
    /\ tree = <<>>
    /\ \/ /\ treeState = "given"
          /\ src = <<>>
          /\ origin = ByCaller
       \/ /\ treeState = "parsing"
          /\ src \in ForeignBytes
          /\ origin = Origin("foreign", src, <<>>, "given")

(* A caller appends to a Tree, also to one that was parsed.                *)
AppendEntry ==
    /\ treeState \in {"given", "checked"}
    /\ Len(tree) < MaxEntries
    /\ \E e \in TreeEntry : tree' = Append(tree, e)
    /\ treeState' = "given"
    /\ origin' = ByCaller
    /\ UNCHANGED src

(* Tree.Sort: sort.Sort leaves the entries in any order that Less allows,  *)
(* then every prefix is looked at for a duplicate.                         *)
Sort ==
    /\ treeState \in {"given", "checked"}
    /\ \E p \in [1..Len(tree) -> 1..Len(tree)] :
          /\ \A i, j \in 1..Len(tree) : i # j => p[i] # p[j]
          /\ tree' = [i \in 1..Len(tree) |-> tree[p[i]]]
    /\ \A i \in 1..(Len(tree) - 1) : ~EntryLess(tree'[i + 1], tree'[i])
    /\ treeState' = IF \E i \in 1..Len(tree) : isLastDuplicated(SubSeq(tree', 1, i))
                    THEN "refused" ELSE "checked"
    /\ origin' = ByCaller
    /\ UNCHANGED src

(* Tree.MarshalBinary: in order, no NUL in a name, and the mode without    *)
(* leading zeros.  The bytes go to a parser.                               *)
Marshals(t) ==
    /\ \A i \in 1..(Len(t) - 1) : EntryLess(t[i], t[i + 1])
    /\ \A i \in 1..Len(t) : \A j \in 1..Len(t[i].Name) : t[i].Name[j] # NUL

appendTo(e) == [Name |-> e.Name, Mode |-> e.Mode, padded |-> FALSE, ok |-> TRUE]

MarshalBinary ==
    /\ treeState \in {"given", "checked"}
    /\ Marshals(tree)
    /\ src' = [i \in 1..Len(tree) |-> appendTo(tree[i])]
    /\ origin' = Origin("marshal", src', tree, treeState)
    /\ tree' = <<>>
    /\ treeState' = "parsing"

(* One turn of UnmarshalBinary's loop.                                     *)
ParseTreeEntry ==
    /\ treeState = "parsing"
    /\ src # <<>>
    /\ LET raw == Head(src)
           ent == [Name |-> raw.Name, Mode |-> raw.Mode]
           n == Len(tree)
       IN \/ /\ ~raw.ok
             /\ treeState' = "refused"
             /\ UNCHANGED <<tree, src>>
          \/ /\ raw.ok
             /\ tree' = Append(tree, ent)
             /\ src' = Tail(src)
             /\ treeState' = IF \/ n > 0 /\ ~EntryLess(tree[n], ent)
                                \/ isLastDuplicated(tree')
                             THEN "refused" ELSE "parsing"
    /\ UNCHANGED origin

ParseTreeEnds ==
    /\ treeState = "parsing"
    /\ src = <<>>
    /\ treeState' = "checked"
    /\ UNCHANGED <<tree, src, origin>>

TreeNext == AppendEntry \/ Sort \/ MarshalBinary \/ ParseTreeEntry \/ ParseTreeEnds

TreeSpec == TreeInit /\ [][TreeNext]_treeVars

-----------------------------------------------------------------------------

Unique(t) == \A i, j \in 1..Len(t) : i # j => t[i].Name # t[j].Name

(***************************************************************************)
(* In a tree that Sort or UnmarshalBinary accepted no two entries have the *)
(* same name, a file and a directory neither, and Search finds every entry *)
(* by its name, and no other.                                              *)
(***************************************************************************)
SearchExact ==
    treeState = "checked" =>
        /\ Unique(tree)
        /\ \A name \in Names :
              LET found == Search(tree, name)
              IN IF \E i \in 1..Len(tree) : tree[i].Name = name
                 THEN found \in {tree[i] : i \in 1..Len(tree)} /\ found.Name = name
                 ELSE found = NotFound

(***************************************************************************)
(* A checked tree, serialized and parsed, is that tree; and a tree that    *)
(* was parsed has the bytes, and so the SHA1, of what it was parsed from,  *)
(* unless a mode there starts with zeros.                                  *)
(***************************************************************************)
TreeRoundTrip ==
    LET readBack == origin.by = "marshal" /\ origin.state = "checked"
        canonical == \A i \in 1..Len(origin.raw) : ~origin.raw[i].padded
        reread == origin.by = "foreign" /\ treeState = "checked" /\ canonical
    IN /\ readBack => treeState # "refused"
       /\ readBack /\ treeState = "checked" => tree = origin.tree
       /\ reread =>
             Marshals(tree) /\ origin.raw = [i \in 1..Len(tree) |-> appendTo(tree[i])]
=============================================================================
