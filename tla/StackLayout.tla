----------------------------- MODULE StackLayout -----------------------------
(***************************************************************************)
(* The stacks of tasks: create_stack, destroy_stack and task_cleanup of    *)
(* src/task.c, create_context of src/arch, and their use in worker_spawn.  *)
(* Addresses and sizes are unsigned and wrap at SizeMod, as size_t and     *)
(* uint64_t do.  Threads spawn and clean up concurrently, one system call  *)
(* at a time; each may fail.                                               *)
(*                                                                         *)
(* The runtime is initialised before tasks are spawned, so                 *)
(* configured_stack_size, which worker_spawn reads four times without a    *)
(* lock, does not change meanwhile.                                        *)
(***************************************************************************)
EXTENDS Naturals, FiniteSets

CONSTANTS TaskSlots,     \* a task, and when it is gone the next in its place
          NoStack,
          SizeMod,       \* 2^64
          PageSize,      \* sysconf(_SC_PAGESIZE)
          MinStackSize,  \* the least croutine_runtime_init accepts (16 KiB)
          Alignment,     \* of the stack pointer (16)
          Reserves,      \* what create_context leaves free at the top: 128 on
                         \* x86_64, 0 on aarch64
          StackSizes     \* configurations that are tried

Pages == 0 .. SizeMod \div PageSize - 1
Addresses == 0 .. SizeMod - 1

\* What a task knows of its stack: the mapping, and stack, stack_size and the stack
\* pointer in the context of struct Task.
Stacks == [base : Addresses, stack : Addresses, size : Addresses,
           sp : [Reserves -> Addresses]]

ASSUME StackAssumption == /\ SizeMod \in Nat \ {0}
                          /\ PageSize \in Nat \ {0}
                          /\ Alignment \in Nat \ {0}
                          /\ SizeMod % PageSize = 0
                          /\ PageSize % Alignment = 0
                          /\ Reserves \subseteq Nat
                          /\ MinStackSize \in Nat
                          /\ \A r \in Reserves : r + Alignment < MinStackSize
                          /\ StackSizes \subseteq 0 .. SizeMod - 1
                          /\ NoStack \notin Stacks

VARIABLES configured_stack_size,
          mapped,      \* the pages that are mapped
          guarded,     \* those that mprotect made inaccessible
          pc,          \* task -> how far it is
          stack        \* task -> its mapping, stack, stack_size, sp

vars == <<configured_stack_size, mapped, guarded, pc, stack>>

Pc == {"unborn", "mapped", "protected", "ready", "gone"}

\* Every variable has its type.
StackTypeOK == /\ configured_stack_size \in Addresses
               /\ mapped \subseteq Pages
               /\ guarded \subseteq mapped
               /\ pc \in [TaskSlots -> Pc]
               /\ stack \in [TaskSlots -> Stacks \cup {NoStack}]

\* A configuration that croutine_runtime_init accepts; nothing is mapped that
\* concerns us.
StackInit == /\ configured_stack_size \in {n \in StackSizes : n >= MinStackSize}
             /\ mapped = {}
             /\ guarded = {}
             /\ pc = [t \in TaskSlots |-> "unborn"]
             /\ stack = [t \in TaskSlots |-> NoStack]
-----------------------------------------------------------------------------
(***************************************************************************)
(* The arithmetic.                                                         *)
(***************************************************************************)
Masked(value, alignment) == (value \div alignment) * alignment

\* Mutant: down instead of up.
align_down(value) == Masked(value, PageSize)

\* Alignments are powers of two: the mask takes the remainder away.
align_up(value) == Masked((value + PageSize - 1) % SizeMod, PageSize)

get_stack_mapping_size(size) == (PageSize + align_up(size)) % SizeMod

\* Mutant: the stack is taken to begin with the guard page.
SpFromMapping(s, size, r) ==
    Masked((s + size + 2 * SizeMod - PageSize - r) % SizeMod, Alignment)

\* create_context: the stack pointer of a new task.
create_context_sp(s, size, r) == Masked((s + size + SizeMod - r) % SizeMod, Alignment)

\* The pages from an address on, for a length.
PagesOf(base, length) ==
    LET first == base \div PageSize
        n == (length + PageSize - 1) \div PageSize
    IN  {p \in Pages : first <= p /\ p < first + n}
-----------------------------------------------------------------------------
(***************************************************************************)
(* worker_spawn and the end of a task.                                     *)
(***************************************************************************)
Goto(t, label) == pc' = [pc EXCEPT ![t] = label]

\* mmap finds a free range, wherever: not at address 0, not up to the end of the
\* address space (the kernel is there), and not an empty one.
\* When it fails the task is not made.
MapStack(t, base) ==
    LET length == get_stack_mapping_size(configured_stack_size)
        range == PagesOf(base, length)
    IN  /\ pc[t] = "unborn"
        /\ base % PageSize = 0 /\ base # 0
        /\ range # {} /\ base + length < SizeMod
        /\ range \cap mapped = {}
        /\ mapped' = mapped \cup range
        /\ stack' = [stack EXCEPT ![t] =
                        [base |-> base, stack |-> 0, size |-> 0,
                         sp |-> [r \in Reserves |-> 0]]]
        /\ Goto(t, "mapped")
        /\ UNCHANGED <<configured_stack_size, guarded>>

MapFails(t) == /\ pc[t] = "unborn"
               /\ Goto(t, "gone")
               /\ UNCHANGED <<configured_stack_size, mapped, guarded, stack>>

Unmapped(base, length) ==
    /\ mapped' = mapped \ PagesOf(base, length)
    /\ guarded' = guarded \ PagesOf(base, length)

\* The page that is protected.
GuardPage(t) == PagesOf(stack[t].base, PageSize)

\* mprotect, and the result of create_stack.
ProtectStack(t) ==
    /\ pc[t] = "mapped"
    /\ guarded' = guarded \cup GuardPage(t)
    /\ stack' = [stack EXCEPT ![t].stack = stack[t].base + PageSize]
    /\ Goto(t, "protected")
    /\ UNCHANGED <<configured_stack_size, mapped>>

ProtectFails(t) ==
    /\ pc[t] = "mapped"
    /\ Unmapped(stack[t].base, get_stack_mapping_size(configured_stack_size))
    /\ stack' = [stack EXCEPT ![t] = NoStack]
    /\ Goto(t, "gone")
    /\ UNCHANGED configured_stack_size

\* The rest of worker_spawn: the argument is copied, the task filled in.
FillTask(t) ==
    LET s == stack[t]
    IN  /\ pc[t] = "protected"
        /\ stack' = [stack EXCEPT
                        ![t].size = configured_stack_size,
                        ![t].sp = [r \in Reserves |->
                            create_context_sp(s.stack, configured_stack_size, r)]]
        /\ Goto(t, "ready")
        /\ UNCHANGED <<configured_stack_size, mapped, guarded>>

\* Mutant: the stack is unmapped with the size that was asked for.
destroy_stack_unaligned(s, size) ==
    Unmapped((s + SizeMod - PageSize) % SizeMod, size)

destroy_stack(s, size) ==
    Unmapped((s + SizeMod - PageSize) % SizeMod, get_stack_mapping_size(size))

\* No memory for the copy of the argument.
CopyFails(t) ==
    /\ pc[t] = "protected"
    /\ destroy_stack(stack[t].stack, configured_stack_size)
    /\ stack' = [stack EXCEPT ![t] = NoStack]
    /\ Goto(t, "gone")
    /\ UNCHANGED configured_stack_size

task_cleanup(t) ==
    /\ pc[t] = "ready"
    /\ destroy_stack(stack[t].stack, stack[t].size)
    /\ stack' = [stack EXCEPT ![t] = NoStack]
    /\ Goto(t, "gone")
    /\ UNCHANGED configured_stack_size

\* Another task is made in the place of one that is gone.
Again(t) == /\ pc[t] = "gone"
            /\ Goto(t, "unborn")
            /\ UNCHANGED <<configured_stack_size, mapped, guarded, stack>>

StackNext == \E t \in TaskSlots : \/ \E p \in Pages : MapStack(t, p * PageSize)
                                  \/ MapFails(t)
                                  \/ ProtectStack(t)
                                  \/ ProtectFails(t)
                                  \/ FillTask(t)
                                  \/ CopyFails(t)
                                  \/ task_cleanup(t)
                                  \/ Again(t)

StackSpec == StackInit /\ [][StackNext]_vars
-----------------------------------------------------------------------------
(***************************************************************************)
(* Safety.                                                                 *)
(***************************************************************************)
\* The pages a task may use: its mapping without the guard page.
Usable(t) == PagesOf(stack[t].stack, get_stack_mapping_size(stack[t].size) - PageSize)

\* A task starts with an aligned stack pointer; the bytes on both sides of it,
\* those it pushes and those create_context has reserved (on x86_64 the return
\* address is there), are in pages that it can access and no other task has, and
\* below them is a page that nobody can access.
StackIsOwn ==
    \A t \in TaskSlots, r \in Reserves : pc[t] = "ready" =>
        LET sp == stack[t].sp[r]
        IN  /\ sp % Alignment = 0
            /\ {(sp - 1) \div PageSize, (sp + r - 1) \div PageSize} \subseteq Usable(t)
            /\ Usable(t) \subseteq mapped \ guarded
            /\ stack[t].stack \div PageSize - 1 \in guarded
            /\ \A u \in TaskSlots \ {t} : pc[u] = "ready" =>
                  Usable(t) \cap Usable(u) = {}

\* Exactly what tasks have is mapped: whichever step of worker_spawn fails, and
\* when tasks end, all of their mapping goes and nothing of another task.
NothingLeaks ==
    Cardinality(mapped) * PageSize =
        Cardinality({t \in TaskSlots : stack[t] # NoStack})
        * get_stack_mapping_size(configured_stack_size)

\* docs/API.md: "per-task usable stack size" is selected with the configuration.
\* Every task has as many accessible bytes above its guard page as configured.
UsableAsConfigured ==
    \A t \in TaskSlots : pc[t] = "ready" =>
        Cardinality(Usable(t) \cap (mapped \ guarded)) * PageSize
            >= configured_stack_size
=============================================================================
