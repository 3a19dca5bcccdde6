-------------------------- MODULE MCArtifactTitles --------------------------
(* ArtifactTitles with a case of three transcriptions from the web pages and *)
(* one of two composes beside an uploaded transcription, which share no      *)
(* title; one of the two deliverables is named by an extension of the        *)
(* other's title.                                                            *)
EXTENDS ArtifactTitles
CONSTANTS u1, u2, u3, a1, c1, c2
MCCases == {{u1, u2, u3}, {a1, c1, c2}}
MCExtensions == {<<"Client deliverable", "Client deliverable (DOCX)">>}
=============================================================================
