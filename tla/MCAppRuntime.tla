---------------------------- MODULE MCAppRuntime ----------------------------
(* Instances of AppRuntime for TLC: programs of up to two words, no or one   *)
(* word of BSS, up to two relocations of known and unknown targets, files    *)
(* with a bad header or a bad signature.                                     *)
EXTENDS AppRuntime

Reloc == [offset : {0, 1}, target : {"data", "kernel"}, known : BOOLEAN]

Relocs == {<<>>} \cup {<<r>> : r \in Reloc} \cup {<<r, s>> : r, s \in Reloc}

Good == [valid : {TRUE}, signed : {TRUE}, program : {2, 3}, bss : {0, 1}, relocs : Relocs]

Bad == [valid : {TRUE}, signed : {FALSE}, program : {2}, bss : {1}, relocs : {<<>>}]
         \cup [valid : {FALSE}, signed : {TRUE}, program : {2}, bss : {1}, relocs : {<<>>}]

MCApps == Good \cup Bad
=============================================================================
