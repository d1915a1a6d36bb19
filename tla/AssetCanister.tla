--------------------------- MODULE AssetCanister ---------------------------
(***************************************************************************)
(* A canister that serves the files of its build with asset_util and       *)
(* changes one of them while it runs: the test application                 *)
(* (demos/test-app/lib.rs), the client that uses every operation of        *)
(* CertifiedAssets.                                                        *)
(***************************************************************************)
EXTENDS AssetFiles, CertifiedAssets

CONSTANTS
    Trees,          \* builds: sequences of files, each Servable
    Contents,       \* contents of the asset that changes
    Locations,      \* targets of its redirects
    MaxChanges      \* bounds the number of changes and upgrades

VARIABLES
    tree,           \* ASSET_DIR of the installed build
    assets,         \* ASSETS
    mode,           \* ALTERNATIVE_ORIGINS_MODE
    certified,      \* the certified data of the canister
    answers,        \* what was answered so far, under which path
    changes         \* the number of changes and upgrades

vars == <<tree, assets, mode, certified, answers, changes>>

ALTERNATIVE_ORIGINS_PATH == WellKnown("ii-alternative-origins")
EVIL_ALTERNATIVE_ORIGINS_PATH == WellKnown("evil-alternative-origins")

\* The canister can serve a build that is sensible, has no page at a path that
\* the canister gives to an asset of its own for good, and names nothing like
\* the terminator of the paths in the tree.
IsSequence(s) == s \in Seq(Range(s))
Servable(t) ==
    /\ IsSequence(t) /\ Sensible(t)
    /\ \A i \in DOMAIN t :
          /\ IsSequence(t[i].dirs) /\ IsSequence(t[i].name)
          /\ \A path \in UrlPaths(t[i]) :
                /\ IsSequence(path) /\ EXACT_MATCH_TERMINATOR \notin Range(path)
                /\ path # EVIL_ALTERNATIVE_ORIGINS_PATH

AssetCanisterAssumption ==
    MaxChanges \in Nat /\ None \notin Nat /\ \A t \in Trees : Servable(t)

StaticHeaders ==
    <<Header("Access-Control-Allow-Origin", "*"),
      Header("Referrer-Policy", "strict-origin-when-cross-origin")>>
Json(path, content) ==
    [path |-> path, content |-> content, type |-> "json", encoding |-> "Identity"]
AlternativeOrigins(content) == Json(ALTERNATIVE_ORIGINS_PATH, content)

\* OUTDATED_INVALID_CERTIFICATE_HEADER
Outdated == [version |-> None, path |-> None, root |-> None]

\* fixup_html: the page gets the id of the canister.
FixupHtml(content) == Append(content, "canister id")

\* http_request.  Modes other than UncertifiedContent leave the response alone.
\* There are no signatures.
HttpRequest(path, version) ==
    IF ~HasAsset(assets, path) THEN None
    ELSE [GetCertifiedAsset(assets, path, version, {}) EXCEPT !.headers =
             (IF path = ALTERNATIVE_ORIGINS_PATH /\ mode = "UncertifiedContent"
              THEN [i \in DOMAIN @ |-> IF @[i].name = "IC-Certificate"
                                       THEN Header("IC-Certificate", Outdated) ELSE @[i]]
              ELSE @) \o StaticHeaders]

\* A response without its certificate.
Answer(response) ==
    [status |-> response.status, body |-> response.body, headers |-> CertifiedHeaders(response)]
AnswersNow == {<<path, Answer(HttpRequest(path, 2))>> : path \in DOMAIN assets.assets}

UpdateRootHash == certified' = [assets |-> RootHash(assets'), sigs |-> {}]

\* init_assets
InitialAssets(t) ==
    CertifyAssets(CollectTransformed(t, [c \in ContentsOf(t) |-> FixupHtml(c)])
                      \o <<AlternativeOrigins(<<>>),
                           Json(EVIL_ALTERNATIVE_ORIGINS_PATH, <<"evil">>)>>,
                  StaticHeaders)

Init ==
    /\ tree \in Trees
    /\ assets = InitialAssets(tree)
    /\ mode = "CertifiedContent"
    /\ certified = [assets |-> RootHash(assets), sigs |-> {}]
    /\ answers = {}
    /\ changes = 0

Change ==
    /\ changes < MaxChanges
    /\ changes' = changes + 1
    /\ answers' = answers \cup AnswersNow

\* post_upgrade
Upgrade ==
    /\ Change
    /\ tree' \in Trees
    /\ assets' = InitialAssets(tree')
    /\ mode' = "CertifiedContent"
    /\ UpdateRootHash

\* update_alternative_origins
UpdateContent ==
    /\ Change
    /\ mode' \in {"CertifiedContent", "UncertifiedContent"}
    /\ \E content \in Contents :
          assets' = CertifyAsset(assets, AlternativeOrigins(content), StaticHeaders)
    /\ UpdateRootHash
    /\ UNCHANGED tree

UpdateRedirect ==
    /\ Change
    /\ mode' = "Redirect"
    /\ \E location \in Locations :
          assets' = CertifyRedirect(assets, ALTERNATIVE_ORIGINS_PATH, location, StaticHeaders)
    /\ UpdateRootHash
    /\ UNCHANGED tree

Next == Upgrade \/ UpdateContent \/ UpdateRedirect

Spec == Init /\ [][Next]_vars

-----------------------------------------------------------------------------
(***************************************************************************)
(* Properties.                                                             *)
(***************************************************************************)

\* "Overrides the previous asset / certification, if any": under each path
\* exactly one response is certified, so that what was answered for it before a
\* change cannot be replayed with the certificate of today.
OldResponsesAreRejected ==
    \A a \in answers :
        a[1] \in DOMAIN assets.assets =>
            (a[2] \in certified.assets.v2[a[1]] => a[2] = Answer(HttpRequest(a[1], 2)))

\* Each file of the build is served, under every path that filepath_to_urlpaths
\* documents ("index.html" under "/", a page with and without a slash), with its
\* content and a certificate that the gateway accepts, whatever was certified
\* before and after it.
FilesAreServed ==
    \A i \in DOMAIN tree : \A version \in {1, 2} :
        LET f == tree[i]
            page == IF f.name = Index THEN f.dirs ELSE Append(f.dirs, Front(f.name))
            documented ==
                IF Last(f.name) # "html" THEN {}
                ELSE IF page = <<>> THEN {<<EmptySegment>>}
                ELSE {page, Append(page, EmptySegment)}
        IN  \A path \in documented \cup UrlPaths(f) :
                path # ALTERNATIVE_ORIGINS_PATH =>
                    LET response == HttpRequest(path, version) IN
                    /\ HasAsset(assets, path)
                    /\ response.status = 200
                    /\ response.body = IF TypeAndEncoding(f).type = "html"
                                       THEN FixupHtml(f.content) ELSE f.content
                    /\ Verifies(response, path, certified)

=============================================================================
