-------------------------- MODULE MCVirtualMemory --------------------------
(* A guest of 32-bit kind (two levels, pages of 2, large pages of 4) for
   VirtualMemory. Virtual: 0-1 user, 2-3 linear, 4-5 and 6-7 two pages that are
   not neighbours in physical memory, 8-9 the kernel map of x86_64, 8-11 a page
   table outside the physical memory, 12-15 a large page whose second half lies
   beyond it. *)
EXTENDS VirtualMemory

E(present, large, nx, frame) == [present |-> present, large |-> large, nx |-> nx, frame |-> frame]
None == E(FALSE, FALSE, FALSE, 0)

MCMemory == [a \in 0 .. 13 |->
  CASE a = 0 -> None                       \* pgd
    [] a = 1 -> E(TRUE, FALSE, FALSE, 4)
    [] a = 2 -> E(TRUE, FALSE, FALSE, 20)
    [] a = 3 -> E(TRUE, TRUE, FALSE, 12)
    [] a = 4 -> E(TRUE, FALSE, TRUE, 8)    \* page table
    [] a = 5 -> E(TRUE, FALSE, FALSE, 6)
    [] OTHER -> None]

MCSpan == <<4, 2>>

J(o, p, l) == [op |-> o, pos |-> p, len |-> l]
MCJobs == {J("readAtomic", 5, 2), J("readAtomic", 3, 2), J("readAtomic", 13, 2),
           J("readAtomic", 7, 4), J("readAtomic", 6, 1), J("readAtomic", 10, 0), J("readAtomic", 99, 1),
           J("safeSeek", 6, 0), J("safeSeek", 10, 0), J("safeSeek", 99, 0),
           J("isExecutable", 5, 0), J("isExecutable", 12, 0), J("isExecutable", 8, 0)}
============================================================================
