------------------------------ MODULE NexusClient ------------------------------
(***************************************************************************)
(* src/nexus_client.py: which package a version is answered with, as pure  *)
(* operators over what the Nexus server says.  An answer is an error or    *)
(* the sequence of the assets found; an asset is told apart only by how it *)
(* relates to the version that was asked for.                              *)
(***************************************************************************)
EXTENDS Naturals, SequencesExt

Assets ==
  { "own",       \* the package of the version, in the directory of its patch
    "checksum",  \* a file beside it, whose name begins with that of the package
    "nested",    \* a package of the version in a subdirectory
    "other" }    \* a package of another patch: its directory is another one

\* Two assets have an order, and more have no other effect on what is chosen.
UpToTwo(S) == UNION {[1..n -> S] : n \in 0..2}

Error == <<"error">>
Answer == {Error} \cup UpToTwo(Assets)
Page == {Error} \cup UpToTwo({"own", "checksum"})

\* What passes a filter keeps its position in the answer.
FirstOf(found) == IF DOMAIN found = {} THEN "none" ELSE found[Min(DOMAIN found)]

\* An error of the search is an empty answer.
RestSearch(reply) == IF reply = Error THEN <<>> ELSE reply
SearchByFilters(reply) == FirstOf(RestSearch(reply))

\* The fallback takes the first asset, whatever its name.
SearchByKeyword(rest, fallback) ==
  LET Expected(asset) == asset \in {"own", "nested"}
      found == RestrictValues(RestSearch(rest), Expected)
  IN  IF DOMAIN found # {} THEN FirstOf(found) ELSE SearchByFilters(fallback)

\* Mutant: whatever the search finds is taken to be in the directory.
ListDirectory_Everywhere(rest, page) ==
  IF rest = Error THEN <<>>
  ELSE IF rest # <<>> THEN rest ELSE RestSearch(page)

\* Nothing in the directory is looked for again on its HTML page, an error not.
ListDirectory(rest, page) ==
  LET InDirectory(asset) == asset \in {"own", "checksum"}
      files == RestrictValues(RestSearch(rest), InDirectory)
  IN  IF rest = Error \/ DOMAIN files # {} THEN files ELSE RestSearch(page)

\* file_pattern names the base version and is not anchored at its end.
MatchesPattern(asset) == asset # "nested"

Download(asset) ==
  CASE asset \in {"own", "nested"} -> {"own", "broken", "none"}
    [] asset = "other" -> {"foreign", "broken", "none"}
    [] asset = "checksum" -> {"broken", "none"}
    [] asset = "none" -> {"none"}

FetchPsuPackage ==
  UNION {Download(FirstOf(RestrictValues(ListDirectory(rest, page), MatchesPattern))) :
           rest \in Answer, page \in Page}

FetchBuildPackage ==
  UNION {Download(SearchByKeyword(rest, fallback)) : rest, fallback \in Answer}

\* search_artifact() asks for the version by equality.
FetchBasicPackage == UNION {Download(SearchByFilters(page)) : page \in Page}

\* _parse_version() by the parts of the version.
FetchPackage(format) ==
  CASE format = "psu" -> FetchPsuPackage
    [] format = "build" -> FetchBuildPackage
    [] format = "basic" -> FetchBasicPackage
=============================================================================
