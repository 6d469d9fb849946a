--------------------------- MODULE MC_SdtlReliable ---------------------------
(* Model-checking instance of SdtlReliable: one-byte fragments, messages of *)
(* one or two fragments, so that single-fragment (FIRST|LAST) sequences and *)
(* multi-fragment sequences both occur.                                     *)
EXTENDS SdtlReliable

MC_MsgLens      == {1, 2}
MC_MaxPayload   == 1
MC_RecvBufSizes == {1, 2}

=============================================================================
