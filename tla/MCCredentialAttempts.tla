------------------------ MODULE MCCredentialAttempts ------------------------
(* Small instances of CredentialAttempts: those of CredentialPipeline, with  *)
(* the calls counted.                                                        *)
EXTENDS CredentialAttempts, MCCredentialPipeline

=============================================================================
