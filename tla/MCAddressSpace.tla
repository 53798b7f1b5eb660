---------------------------- MODULE MCAddressSpace ----------------------------
(***************************************************************************)
(* Instances on which the memory of the execution states is checked.       *)
(***************************************************************************)
EXTENDS AddressSpaceProperties

(* Input x makes the bytes of an object x mod 2 and x div 2. *)
MCArray == [mo \in MemoryObjects |-> [x \in Inputs |-> [o \in Offsets |->
                IF o = 0 THEN x % 2 ELSE x \div 2]]]
MCIndex == [x \in Inputs |-> x % 2]
=============================================================================
