--------------------------- MODULE StructureTree ---------------------------
(***************************************************************************)
(* The tree of structure nodes that procfs_structure_init builds: what a   *)
(* procfs directory can contain (kext/procfs_structure.c).  Lookup walks   *)
(* it.                                                                     *)
(***************************************************************************)
EXTENDS Integers

Row(name, type, parent, perProcess, perThread) ==
    [name |-> name, type |-> type, parent |-> parent, process |-> perProcess,
     thread |-> perThread]

\* procfs_structure_init, with the base ids that it hands out: one row for each
\* type of node below each directory.  "." and ".." take the two ids after
\* their directory's.
Structure ==
    [base \in {1, 4, 7, 8, 9, 10, 11, 13, 14, 15, 16, 17, 18, 19, 20, 22, 25, 28, 31, 34,
               37, 40, 43, 52, 59, 69, 70, 76} |->
        CASE base = 1  -> Row("/", "PFSroot", 0, FALSE, FALSE)
          [] base = 4  -> Row("byname", "PFSdir", 1, FALSE, FALSE)
          [] base = 7  -> Row("cpuinfo", "PFScpuinfo", 1, FALSE, FALSE)
          [] base = 8  -> Row("curproc", "PFScurproc", 1, FALSE, FALSE)
          [] base = 9  -> Row("loadavg", "PFSloadavg", 1, FALSE, FALSE)
          [] base = 10 -> Row("meminfo", "PFSmeminfo", 1, FALSE, FALSE)
          [] base = 11 -> Row("mtab", "PFSmtab", 1, FALSE, FALSE)
          [] base = 13 -> Row("stat", "PFSstat", 1, FALSE, FALSE)
          [] base = 14 -> Row("vmstat", "PFSvmstat", 1, FALSE, FALSE)
          [] base = 15 -> Row("partitions", "PFSpartitions", 1, FALSE, FALSE)
          [] base = 16 -> Row("version", "PFSversion", 1, FALSE, FALSE)
          [] base = 17 -> Row("uptime", "PFSuptime", 1, FALSE, FALSE)
          [] base = 18 -> Row("swaps", "PFSswaps", 1, FALSE, FALSE)
          [] base = 19 -> Row("filesystems", "PFSfilesystems", 1, FALSE, FALSE)
          [] base = 20 -> Row("sys", "PFSsysctl", 1, FALSE, FALSE)
          [] base = 22 -> Row("__Process_N__", "PFSprocnamedir", 4, TRUE, FALSE)
          [] base = 25 -> Row("__Process__", "PFSproc", 1, TRUE, FALSE)
          [] base = 28 -> Row("fd", "PFSdir", 25, TRUE, FALSE)
          [] base = 31 -> Row("__File__", "PFSfd", 28, TRUE, FALSE)
          [] base = 34 -> Row("threads", "PFSdir", 25, TRUE, FALSE)
          [] base = 37 -> Row("__Thread__", "PFSthread", 34, TRUE, TRUE)
          [] base = 40 -> Row("task", "PFSdir", 25, TRUE, FALSE)
          [] base = 43 -> Row("__Thread__", "PFSthread", 40, TRUE, TRUE)
          [] base = 52 -> Row("status", "PFSfile", 25, TRUE, FALSE)
          [] base = 59 -> Row("exe", "PFSproclink", 25, TRUE, FALSE)
          [] base = 69 -> Row("info", "PFSfile", 37, TRUE, TRUE)
          [] base = 70 -> Row("info", "PFSfile", 43, TRUE, TRUE)
          [] base = 76 -> Row("details", "PFSfile", 31, TRUE, FALSE)]

=============================================================================
