---------------------------- MODULE UserdataLayout ----------------------------
(***************************************************************************)
(* Where the parts of a sol userdata lie (stack_core.hpp): one block from  *)
(* lua_newuserdata holds, each at its alignment, the pointer to the        *)
(* object, for a unique usertype its destructor and tag, and the object.   *)
(* The allocator walks the block part by part, gives up when the padding   *)
(* does not fit and tries once more with a block of another size.  Nobody  *)
(* stores the positions: the readers (getters, __gc) compute them again    *)
(* from the address of the block.                                          *)
(*                                                                         *)
(* Addresses and sizes are natural numbers; the size_t arithmetic of the   *)
(* code does not wrap for blocks that can be allocated.                    *)
(***************************************************************************)
EXTENDS Naturals, Integers, Sequences

CONSTANTS Types,          \* what is held: a record of alignment and size
          Pointer,        \* a pointer, to an object or a function: the same
          Blocks,         \* the addresses lua_newuserdata may return
          UseAlignment    \* FALSE with SOL_NO_MEMORY_ALIGNMENT

ASSUME LayoutAssumption ==
    /\ Types \cup {Pointer} \subseteq [align : Nat \ {0}, size : Nat \ {0}]
    /\ Blocks \subseteq Nat
    /\ UseAlignment \in BOOLEAN

Kinds == {"value", "pointer", "unique", "user"}

VARIABLES kind,      \* how the object is held
          type,      \* its type
          attempt,   \* which call of lua_newuserdata this is
          block,     \* the address and the size of the block
          space,     \* what is left of it: allocated_size
          placed,    \* the addresses of the parts placed, in order
          stack,     \* userdata the allocator has on the stack
          pc         \* new, placing, retry, made, error
layout == <<kind, type, attempt, block, space, placed, stack, pc>>

\* What lies in a block: the T*, the unique_destructor, the unique_tag, T.
Parts ==
    CASE kind = "value"   -> <<Pointer, type>>
      [] kind = "pointer" -> <<Pointer>>
      [] kind = "unique"  -> <<Pointer, Pointer, Pointer, type>>
      [] kind = "user"    -> <<type>>

-----------------------------------------------------------------------------
(* Alignment. *)

Padding(a, p) == (a - (p % a)) % a

\* align: the first address from p on that is right for a part.
align(part, p) == p + Padding(part.align, p)

\* align_one: where a part that starts at p or after it ends.
align_one(part, p) == align(part, p) + part.size

\* Mutant: the padding after the pointer is left out.
aligned_space_unpadded(start) ==
    CASE kind = "value"   -> align_one(Pointer, start) + type.size - start
      [] kind = "pointer" -> align_one(Pointer, start) - start
      [] kind = "unique"  ->
            align_one(Pointer, start) + 2 * Pointer.size + type.size - start
      [] kind = "user"    -> align_one(type, start) - start

\* The room the parts take in a block that begins at start.
aligned_space_for(start) ==
    CASE kind = "value"   ->
            align_one(type, align_one(Pointer, start)) - start
      [] kind = "pointer" -> align_one(Pointer, start) - start
      [] kind = "unique"  ->
            align_one(type, align_one(Pointer, align_one(Pointer,
                align_one(Pointer, start)))) - start
      [] kind = "user"    -> align_one(type, start) - start

\* With alignment off the sizes are just added up.
unaligned_space ==
    CASE kind = "value"   -> Pointer.size + type.size
      [] kind = "pointer" -> Pointer.size
      [] kind = "unique"  -> 3 * Pointer.size + type.size
      [] kind = "user"    -> type.size

\* initial_size and misaligned_size.
size_for(n) == IF ~UseAlignment THEN unaligned_space
               ELSE IF n = 1 THEN aligned_space_for(0)
               ELSE aligned_space_for(1)

-----------------------------------------------------------------------------
(* The allocator. *)

LayoutInit ==
    /\ kind \in Kinds /\ type \in Types
    /\ attempt = 0 /\ block = [at |-> 0, size |-> 0] /\ space = 0
    /\ placed = <<>> /\ stack = 0 /\ pc = "new"

lua_newuserdata ==
    /\ pc \in {"new", "retry"}
    /\ attempt' = attempt + 1
    /\ \E b \in Blocks : block' = [at |-> b, size |-> size_for(attempt')]
    /\ space' = block'.size
    /\ placed' = <<>>
    /\ stack' = stack + 1
    /\ pc' = "placing"
    /\ UNCHANGED <<kind, type>>

\* The part to place, and the first address it may have.
Part == Parts[Len(placed) + 1]
Cursor == IF placed = <<>> THEN block.at
          ELSE placed[Len(placed)] + Parts[Len(placed)].size
Waste == IF UseAlignment THEN Padding(Part.align, Cursor) ELSE 0

Need == Part.size + Waste

\* Mutant: the padding is not taken off the space that is left.
LeftWithPadding == space - Part.size

Left == space - Need

Place ==
    /\ pc = "placing" /\ Len(placed) < Len(Parts)
    /\ space >= Need
    /\ placed' = Append(placed, Cursor + Waste)
    /\ space' = Left
    /\ UNCHANGED <<kind, type, attempt, block, stack, pc>>

\* align returns nullptr: lua_pop, and the second attempt or luaL_error.
DoesNotFit ==
    /\ pc = "placing" /\ Len(placed) < Len(Parts)
    /\ space < Need
    /\ stack' = stack - 1
    /\ pc' = IF attempt = 1 THEN "retry" ELSE "error"
    /\ UNCHANGED <<kind, type, attempt, block, space, placed>>

Finish ==
    /\ pc = "placing" /\ Len(placed) = Len(Parts)
    /\ pc' = "made"
    /\ UNCHANGED <<kind, type, attempt, block, space, placed, stack>>

LayoutNext == lua_newuserdata \/ Place \/ DoesNotFit \/ Finish

LayoutSpec == LayoutInit /\ [][LayoutNext]_layout

-----------------------------------------------------------------------------
(* The readers. *)

Realign(part, p) == IF UseAlignment THEN align(part, p) ELSE p

align_usertype_pointer(p) == Realign(Pointer, p)

\* Mutant: the step over the pointer is forgotten.
align_usertype_unique_destructor_unshifted(p) ==
    Realign(Pointer, align_usertype_pointer(p))

\* Without alignment the pointer is stepped over twice.
align_usertype_unique_destructor(p) ==
    LET q == align_usertype_pointer(p) + Pointer.size
    IN IF UseAlignment THEN align(Pointer, q) ELSE q + Pointer.size

align_usertype_unique_tag(p) ==
    Realign(Pointer, align_usertype_unique_destructor(p) + Pointer.size)

align_usertype_unique(p) ==
    Realign(type, align_usertype_unique_tag(p) + Pointer.size)

align_user(p) == Realign(type, p)

\* What the readers find, by the order of the parts.  The object of a value
\* is reached through the pointer that was stored.
Found(p) ==
    CASE kind \in {"value", "pointer"} -> <<align_usertype_pointer(p)>>
      [] kind = "user" -> <<align_user(p)>>
      [] kind = "unique" ->
            <<align_usertype_pointer(p), align_usertype_unique_destructor(p),
              align_usertype_unique_tag(p), align_usertype_unique(p)>>

-----------------------------------------------------------------------------
(* Properties. *)

\* The state is one the allocator can be in; it never has a negative space.
LayoutTypeOK ==
    /\ kind \in Kinds /\ type \in Types
    /\ attempt \in 0 .. 2 /\ block \in [at : Nat, size : Nat]
    /\ space \in Nat /\ placed \in Seq(Nat)
    /\ stack \in Nat
    /\ pc \in {"new", "placing", "retry", "made", "error"}

\* Getters and __gc compute, from the block alone, the addresses at which
\* the allocator put the parts.
ReadersFindParts ==
    pc = "made" => \A i \in DOMAIN Found(block.at) :
                       Found(block.at)[i] = placed[i]

\* Every part placed is aligned, in the block and behind the part before.
PartsAreSound ==
    \A i \in DOMAIN placed :
        /\ UseAlignment => placed[i] % Parts[i].align = 0
        /\ placed[i] >= block.at
        /\ placed[i] + Parts[i].size <= block.at + block.size
        /\ i > 1 => placed[i] >= placed[i - 1] + Parts[i - 1].size

\* A first block that is aligned for each of its parts is never given up:
\* with an allocator like malloc there is no second attempt.  And a userdata
\* of a single part is made wherever the second block lies.
AlignedBlocksSuffice ==
    /\ pc = "retry" => \E i \in DOMAIN Parts : block.at % Parts[i].align # 0
    /\ pc = "error" => Len(Parts) > 1

\* The userdata is on the stack when the allocator returns, and the block
\* that did not fit is not.
OneUserdata == /\ pc = "made" => stack = 1
               /\ pc \in {"retry", "error"} => stack = 0

\* What stack_core.hpp says of the second attempt: it over-allocates.  For
\* objects aligned more than a pointer it does not.
SecondAttemptIsLarger == attempt = 2 => block.size > aligned_space_for(0)
=============================================================================
