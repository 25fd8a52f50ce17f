------------------------------ MODULE Klookup ------------------------------
(***************************************************************************)
(* Private kernel symbols: what procfs_ksyms puts in the staged file and   *)
(* what klookup_resolve and resolve_symbols make of it.                    *)
(*                                                                         *)
(* A file, and a table of addresses, is a function from symbols to         *)
(* numbers; 0 is a symbol without a line, or NULL.  A file without lines   *)
(* stands for a missing one, and for one that cannot be read: none of them *)
(* has a _version.                                                         *)
(***************************************************************************)
EXTENDS Integers, Sequences

CONSTANTS
    Builds,     \* kernel builds
    WANTED,     \* the symbols in the order of their lines
    Link,       \* Link[b][y], the link-time address of y in b, 0 if stripped
    CutLines    \* bound: the lines in which a file that is cut short may end

VERSION == "_version"
KPMAP   == "_kernel_pmap"

Symbols == {WANTED[i] : i \in DOMAIN WANTED}

\* Every kernel has the two anchors.
ASSUME LinkAssumption ==
    /\ WANTED[1] = VERSION /\ WANTED[2] = KPMAP
    /\ {VERSION, KPMAP} \subseteq Symbols
    /\ CutLines \subseteq DOMAIN WANTED
    /\ Link \in [Builds -> [Symbols -> Nat]]
    /\ \A b \in Builds : Link[b][VERSION] # 0 /\ Link[b][KPMAP] # 0

NoLines == [y \in Symbols |-> 0]

\* The symbols that resolve_symbols asks for.
names == Symbols \ {KPMAP}

Nothing == [y \in names |-> 0]

\* The addresses in a running kernel.
Runtime(b, slide) == [y \in Symbols |-> IF Link[b][y] = 0 THEN 0 ELSE Link[b][y] + slide]

\* What procfs_ksyms writes: the symbols of the running build, found by its
\* xnu token.
Staged(b) == {Link[b]}

\* The number that is read from a line which ends early: hexadecimal digits
\* are missing.
CutNumbers(v) == {v, v \div 16, 0}

\* The file when the volume is full: some lines, the last one perhaps not
\* whole.  The result of fclose is not looked at.
ShortFiles == [b \in Builds |->
    UNION {{[y \in Symbols |->
                IF \E i \in 1 .. k - 1 : WANTED[i] = y THEN Link[b][y]
                ELSE IF WANTED[k] = y THEN v ELSE 0] :
              v \in CutNumbers(Link[b][WANTED[k]])} : k \in CutLines} \ {Link[b]}]

\* What kl_slurp reads of a file: all of it, or nothing, for want of memory or
\* because of an error.
kl_slurp(file) == {file, NoLines}

\* Mutant of Matches: the second anchor is not compared.
MutMatches(file, version, kpmap) == TRUE

\* The slide that _version gives must be right for _kernel_pmap too.
Matches(file, version, kpmap) ==
    file[KPMAP] # 0 => file[KPMAP] + (version - file[VERSION]) = kpmap

klookup_resolve(file, version, kpmap) ==
    IF file[VERSION] # 0 /\ Matches(file, version, kpmap)
    THEN [y \in names |-> IF file[y] = 0 THEN 0 ELSE file[y] + (version - file[VERSION])]
    ELSE Nothing

\* resolve_symbols keeps the addresses if the one of _version is right.
resolve_symbols(file, version, kpmap) ==
    LET addr == klookup_resolve(file, version, kpmap)
    IN  IF addr[VERSION] = version THEN addr ELSE Nothing

\* Builds whose anchors are as far from each other cannot be told apart.
SameAnchors(b, c) == Link[b][KPMAP] - Link[b][VERSION] = Link[c][KPMAP] - Link[c][VERSION]

=============================================================================
