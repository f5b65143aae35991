----------------------------- MODULE MCPageScan -----------------------------
(* Guests for PageScan: each mode with all combinations of a few kinds of
   entries: 0, not present, for users or the kernel only, not executable,
   large, beyond the dump. *)
EXTENDS PageScan, TLC

Zero == {}
Swapped == {"frame"}
User == {"P", "RW", "US", "frame"}
Kernel == {"P", "RW", "frame"}
Pointer == {"P", "frame"}
ReadOnly == {"P", "US", "frame"}
NoExec(e) == e \cup {"NX"}
Huge(e) == e \cup {"PSE"}
Out(e) == e \cup {"out"}

(* The top directory has three entries, of which 1 and 2 are used; the tables of
   a lower level are alike, with two entries each. *)
Table(k, x, y) == IF k = 1 THEN (0 :> Zero @@ 1 :> x @@ 2 :> y)
                  ELSE [n \in 0 .. 23 |-> IF n % 2 = 0 THEN x ELSE y]

X86Dirs == {Zero, Swapped, User, ReadOnly, Out(User), Huge(User), Huge(Kernel), Huge(Out(Kernel))}
X86Pages == {Zero, User, ReadOnly, Kernel, Out(Kernel)}
X86Guests ==
  {[mode |-> "x86", tables |-> <<Table(1, a, b), Table(2, c, d)>>] :
     a \in X86Dirs, b \in {User, Kernel}, c \in X86Pages, d \in {Zero, Kernel}}

Pages == {ReadOnly, User, Kernel, NoExec(Kernel), Out(Kernel)}
Middles == {Zero, Swapped, User, Kernel, NoExec(User), Out(User), Huge(User), Huge(Kernel), Huge(NoExec(Kernel))}
PaeGuests ==
  {[mode |-> "pae", tables |-> <<Table(1, a, Pointer), Table(2, b, c), Table(3, d, e)>>] :
     a \in {Zero, Pointer, Out(Pointer)}, b \in Middles, c \in {Zero, User, Huge(Kernel)},
     d \in Pages, e \in {Zero, Kernel}}

Uppers64 == {Zero, ReadOnly, User, Kernel, NoExec(User), Out(User)}
Puds64 == Uppers64 \cup {Huge(User), Huge(Kernel), Huge(Out(Kernel))}
X64Guests ==
  {[mode |-> "x86_64", tables |-> <<Table(1, a, User), Table(2, b, User), Table(3, c, d), Table(4, e, Kernel)>>] :
     a \in Uppers64, b \in Puds64, c \in Middles, d \in {User, Huge(Kernel)}, e \in Pages}

MCGuests == X86Guests \cup PaeGuests \cup X64Guests
MCLinearPages == 16 .. 19
MCKernelCode == <<4, 5>>
MCKernelData == <<5, 6>>
MCModules == {<<8, 1>>, <<2, 0>>}
MCVmapAreas == {<<10, 11, {"lazy"}>>, <<14, 15, {"alloc"}>>, <<16, 17, {}>>}
============================================================================
