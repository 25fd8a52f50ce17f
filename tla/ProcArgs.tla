------------------------------ MODULE ProcArgs ------------------------------
(***************************************************************************)
(* Finding the sections of the argument region of a process, for cmdline,  *)
(* environ and auxv (procfs_read_procargs).  The region is the path of the *)
(* executable, padded with NULs, the arguments, the environment and the    *)
(* apple strings, each string with its NUL; of the region as many bytes    *)
(* are read as are resident.                                               *)
(*                                                                         *)
(* The process can overwrite the region: its bytes are any.  A byte is     *)
(* NUL, C for a character, or one of K1 and K2, which spell the key        *)
(* "executable_path=" in two bytes; the read can end between them.         *)
(* Offsets count from 0; buf[k + 1] is the byte at offset k.               *)
(***************************************************************************)
EXTENDS Integers, Sequences, SequencesExt, FiniteSetsExt

CONSTANTS
    MaxBytes,   \* bound: bytes of a region of any contents
    MaxArgs,    \* bound: argc, and strings of the environment
    MaxWord     \* bound: characters of a string

NUL == 0
C   == 1
K1  == 2
K2  == 3

PROCFS_EXEC_KEY == <<K1, K2>>

keylen == Len(PROCFS_EXEC_KEY)

VARIABLES
    buf, argc,                      \* the bytes that are resident, p_argc
    parts,                          \* the strings that the region was made of
    pc,                             \* "path", "pad", "argv", "env" or "done"
    pos, got,                       \* scan and count of the loops
    argv_off, env_off, apple_off    \* the results

vars == <<buf, argc, parts, pc, pos, got, argv_off, env_off, apple_off>>

n == Len(buf)

\* strnlen from an offset: bytes before the next NUL, or before the end.
strnlen(off) == Min({k \in 0..n - off : off + k = n \/ buf[off + k + 1] = NUL})

Words == SeqOf({C}, MaxWord)

Strings(ws) == FlattenSeq([i \in DOMAIN ws |-> ws[i] \o <<NUL>>])

\* The regions that exec makes: an argument vector that begins with a string
\* that is not empty, no environment string that begins with the key.
Made ==
    [path : {<<C>>}, pad : {<<NUL>>, <<NUL, NUL>>},
     argv : {a \in SeqOf(Words, MaxArgs) : a # <<>> /\ a[1] # <<>>},
     env : SeqOf(Words, MaxArgs), apple : {<<>>, <<PROCFS_EXEC_KEY \o <<C>>>>}]

Region(m) == m.path \o m.pad \o Strings(m.argv) \o Strings(m.env) \o Strings(m.apple)

None == [path |-> <<>>]

Init ==
    /\ \/ \E m \in Made :
             /\ parts = m /\ argc = Len(m.argv)
             /\ \E k \in 1..Len(Region(m)) : buf = SubSeq(Region(m), 1, k)
       \/ parts = None /\ argc \in 1..MaxArgs /\ buf \in SeqOf({NUL, C, K1, K2}, MaxBytes) \ {<<>>}
    /\ pc = "path" /\ pos = 0 /\ got = 0
    /\ argv_off = 0 /\ env_off = 0 /\ apple_off = 0

\* The path and its NUL ...
Path ==
    /\ pc = "path"
    /\ pos' = IF strnlen(0) < n THEN strnlen(0) + 1 ELSE strnlen(0)
    /\ pc' = "pad"
    /\ UNCHANGED <<buf, argc, parts, got, argv_off, env_off, apple_off>>

\* ... and the padding.
Pad ==
    /\ pc = "pad"
    /\ IF pos < n /\ buf[pos + 1] = NUL
       THEN pos' = pos + 1 /\ UNCHANGED <<pc, argv_off>>
       ELSE argv_off' = pos /\ pc' = "argv" /\ UNCHANGED pos
    /\ UNCHANGED <<buf, argc, parts, got, env_off, apple_off>>

\* Mutant of StringEnd: a string is taken to have its NUL.
MutStringEnd(off) == off + strnlen(off) + 1

\* Behind the string at an offset, and behind its NUL if that was read.
StringEnd(off) == off + strnlen(off) + (IF strnlen(off) < n - off THEN 1 ELSE 0)

Argv ==
    /\ pc = "argv"
    /\ IF got < argc /\ pos < n
       THEN pos' = StringEnd(pos) /\ got' = got + 1 /\ UNCHANGED <<pc, env_off>>
       ELSE env_off' = pos /\ pc' = "env" /\ UNCHANGED <<pos, got>>
    /\ UNCHANGED <<buf, argc, parts, argv_off, apple_off>>

\* The key, all of it, is at an offset.
KeyAt(off) == n - off >= keylen /\ SubSeq(buf, off + 1, off + keylen) = PROCFS_EXEC_KEY

\* The environment ends where a string begins with the key, or with the buffer.
Env ==
    /\ pc = "env"
    /\ IF pos < n /\ ~KeyAt(pos) /\ strnlen(pos) < n - pos
       THEN pos' = pos + strnlen(pos) + 1 /\ UNCHANGED <<pc, apple_off>>
       ELSE /\ apple_off' = IF KeyAt(pos) THEN pos ELSE n
            /\ pc' = "done" /\ UNCHANGED pos
    /\ UNCHANGED <<buf, argc, parts, got, argv_off, env_off>>

\* The spans are copied out and the buffer is freed.
Done == pc = "done" /\ UNCHANGED vars

Step == Path \/ Pad \/ Argv \/ Env

Next == Step \/ Done

Spec == Init /\ [][Next]_vars /\ WF_vars(Step)

-----------------------------------------------------------------------------
Span(from, to) == SubSeq(buf, from + 1, to)

Prefix(t, k) == SubSeq(t, 1, Max({0, Min({k, Len(t)})}))

\* The first bytes of the key, behind which the read ended.
CutKey(k) == IF 0 < k /\ k < keylen THEN SubSeq(PROCFS_EXEC_KEY, 1, k) ELSE <<>>

\* For any bytes the spans are within the buffer, in order.  Of a region as exec
\* makes it, cmdline is the arguments and environ the environment, each as far
\* as it was resident; if the read ended within the key, environ ends with the
\* part of it that was read, and with nothing else that is not environment.
SpansAreExact ==
    pc = "done" =>
        /\ 0 <= argv_off /\ argv_off <= env_off /\ env_off <= apple_off /\ apple_off <= n
        /\ parts # None =>
              LET args == Strings(parts.argv)
                  env  == Strings(parts.env)
                  head == Len(parts.path) + Len(parts.pad)
                  rest == n - head - Len(args)
              IN  /\ Span(argv_off, env_off) = Prefix(args, n - head)
                  /\ Span(env_off, apple_off) = Prefix(env, rest) \o CutKey(rest - Len(env))

\* The loops end for any bytes.
ScanEnds == <>(pc = "done")

=============================================================================
