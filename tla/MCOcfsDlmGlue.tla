---------------------------- MODULE MCOcfsDlmGlue ----------------------------
(* Instances of OcfsDlmGlue for TLC.                                       *)
EXTENDS OcfsDlmGlue, TLC

CONSTANTS t1, t2

Two == {t1, t2}

Want(op, level, flags) == [op |-> op, level |-> level, flags |-> flags]
Case(kind, a, b, remote, may) ==
  [kind |-> kind, asks |-> (t1 :> a @@ t2 :> b), remote |-> remote, may |-> may]

Lock(level, flags) == Want("lock", level, flags)
Flk(level, flags) == Want("flock", level, flags)

\* Locks that are taken, converted and given up
Kept ==
  {Case("simple", Lock(PR, {"intr"}), Lock(EX, {}), <<PR, EX>>, {}),
   Case("simple", Lock(EX, {"noqueue"}), Lock(PR, {"fails"}), <<EX>>, {}),
   Case("simple", Lock(PR, {"nonblock"}), Lock(EX, {}), <<EX>>, {}),
   Case("inode", Lock(EX, {}), Lock(PR, {}), <<EX, PR>>, {"crash"}),
   Case("inode", Lock(EX, {}), Lock(PR, {}), <<PR, EX>>, {"late", "many"}),
   Case("inode", Want("create", EX, {}), Lock(PR, {}), <<PR, EX>>, {}),
   Case("dentry", Lock(PR, {}), Lock(EX, {}), <<PR, EX>>, {}),
   Case("flock", Flk(EX, {"intr", "noqueue"}), Flk(EX, {}), <<EX>>, {})}

\* Locks that go in the end
Dropped ==
  {Case("simple", Lock(PR, {}), Lock(PR, {}), <<EX>>, {"drop", "late"}),
   Case("inode", Lock(EX, {"intr"}), Lock(PR, {"intr"}), <<EX>>, {"drop", "late", "crash"}),
   Case("dentry", Lock(PR, {}), Lock(PR, {}), <<EX>>, {"drop", "late"}),
   Case("flock", Flk(EX, {"noqueue"}), Flk(PR, {}), <<EX>>, {"drop", "late"})}

MCUses == Kept \cup Dropped

\* What the code does not expect, see the README
Many == {Case("simple", Lock(PR, {}), Lock(EX, {}), <<PR, EX>>, {"many"})}
Unread == {Case("inode", Lock(EX, {"fails"}), Lock(PR, {}), <<EX, PR>>, {"crash"})}
=============================================================================
