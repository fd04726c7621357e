------------------------------- MODULE MCCodec -------------------------------
(* The two codecs of a delta: its bytes, and the base64 it travels in.  A  *)
(* behaviour writes one or the other.                                      *)
EXTENDS Vcdiff, Base64

MCSource == <<1, 2>>

MCInit == EncInit /\ Init64
MCNext == \/ EncNext /\ bytes = <<>> /\ chars = <<>> /\ UNCHANGED <<bytes, chars>>
          \/ Next64 /\ wins = <<>> /\ UNCHANGED <<wins, text, enc>>
=============================================================================
