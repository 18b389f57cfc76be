------------------------------- MODULE MCBoot -------------------------------
(* Boot on small machines: pages of 4 words, blocks of 4 words. *)
EXTENDS Boot

Module(name, from, size) == [name |-> name, from |-> from, to |-> from + size]

MCModules == {<<>>, <<Module(RAMDISK, END, 5)>>, <<Module(RAMDISK, END + 8, 12)>>,
              <<Module("other", END, 9)>>,
              <<Module(RAMDISK, END, 9), Module("other", END + 12, 8)>>}

Program(name, size, entry, vaddr, offset) ==
    [name |-> name, size |-> size, magic |-> size > 0, entry |-> entry, got |-> [at |-> 2, words |-> 2],
     segments |-> <<[vaddr |-> 9, size |-> 1, offset |-> 0],
                    [vaddr |-> vaddr, size |-> 3, offset |-> offset]>>]

MCArchives ==
    {<<>>,
     <<Program("todd", 5, 1, 0, 2), Program(SHELL, 4, 2, 0, 1)>>,
     <<Program(SHELL, 4, 2, 0, 1), Program("todd", 0, 5, 0, 2), Program("todd", 7, 1, 0, 1)>>,
     <<Program(SHELL, 8, 1, 1, 2), Program("test", 4, 1, 1, 1)>>,
     <<Program("todd", 9, 1, 0, 1)>>}
=============================================================================
