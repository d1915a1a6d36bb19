------------------------------ MODULE Frontend ------------------------------
(***************************************************************************)
(* The frontend canister (internet_identity_frontend/src/main.rs): a       *)
(* release is installed with its arguments and serves the files of the     *)
(* release until the next one.                                             *)
(*                                                                         *)
(* The content of a file is a record of its text and of the arguments that *)
(* have been injected into it.  A text is the sequence of lexemes: what    *)
(* the canister searches for, what the tokenizer of a browser goes by, and *)
(* words, which are anything else.  No word has part of another lexeme; a  *)
(* word after the name of a tag, and "<body" and "<p", include the space   *)
(* between them.  A lexeme has no ">" but at its end.  The asset router is *)
(* a library: it serves the assets it was given last, each with the        *)
(* configuration of the same path.                                         *)
(***************************************************************************)
EXTENDS AssetFiles, FiniteSets

CONSTANTS
    Releases,       \* the directories ASSETS_DIR that releases are built with
    Arguments,      \* what releases are installed with
    ImmutableStems, \* first parts of names that begin with "immutable"
    MaxUpgrades,    \* bounds the number of upgrades
    None            \* no arguments in a file, no related origins

Hashed(f) == IsPrefix(<< <<"_app">>, <<"immutable">> >>, f.dirs)

\* The bundler names the files of /_app/immutable by their content.
NamesAreHashed ==
    \A tree, other \in Releases : \A i \in DOMAIN tree, j \in DOMAIN other :
        /\ Hashed(tree[i]) /\ Hashed(other[j])
        /\ UrlPaths(tree[i]) \cap UrlPaths(other[j]) # {}
        => tree[i].content = other[j].content

FrontendAssumption ==
    /\ MaxUpgrades \in Nat
    /\ "immutable" \in ImmutableStems
    /\ \A tree \in Releases :
          /\ tree \in Seq(ToSet(tree)) /\ Sensible(tree)
          /\ \A i \in DOMAIN tree :
                /\ UrlPaths(tree[i]) \cap ({<< <<"", "config">> >>} \cup KNOWN_FILES) = {}
                /\ tree[i].content.text \in Seq(STRING)
                /\ tree[i].content.args = None
    /\ NamesAreHashed

VARIABLES
    args,       \* what the canister was installed with
    router,     \* ASSET_ROUTER: each path with its response
    kept,       \* history: what browsers were told to keep, paths with bodies
    upgrades    \* the number of upgrades

vars == <<args, router, kept, upgrades>>

Asset(path, text, type) ==
    [path |-> path, type |-> type, encoding |-> "Identity",
     content |-> [text |-> text, args |-> None]]

\* fixup_html: a link is put before each end of a head, and the canister id and
\* the arguments into each body tag.
FixupHtml(a, content) ==
    LET Fixed(token) ==
            IF token = "</head>" THEN <<"<link>", "</head>">>
            ELSE IF token = "<body" THEN <<"<body", "args">> ELSE <<token>>
    IN  [text |-> FlattenSeq([i \in DOMAIN content.text |-> Fixed(content.text[i])]), args |-> a]

\* get_static_assets.  The names of the domains are the origins without scheme.
GetStaticAssets(tree, a) ==
    CollectTransformed(tree, [content \in ContentsOf(tree) |-> FixupHtml(a, content)])
        \o <<Asset(<< <<"", "config">> >>, <<"config", a>>, "txt"),
             Asset(WellKnown("ic-domains"),
                   <<"domains", IF a.related_origins = None THEN <<>> ELSE a.related_origins>>,
                   "octet-stream")>>
        \o IF a.related_origins = None THEN <<>>
           ELSE <<Asset(WellKnown("webauthn"), <<"origins", a.related_origins>>, "json")>>

\* find: the first place of one of the tokens from a place of the text on.
Found(text, from, tokens) == \E i \in from..Len(text) : text[i] \in tokens
Find(text, from, tokens) ==
    CHOOSE i \in from..Len(text) :
        text[i] \in tokens /\ \A j \in from..i - 1 : text[j] \notin tokens

EndInGreater == {">", "-->", "</script>", "</script/>", "</SCRIPT>", "</head>", "<link>"}
TagOpens(text) == {i \in DOMAIN text : text[i] = "<script"}
InlineStart(text, open) == Find(text, open, EndInGreater) + 1

InlineText(text, open) ==
    LET start == InlineStart(text, open) IN
    SubSeq(text, start, Find(text, start, {"</script>"}) - 1)

\* Mutant: tags with attributes are not found.
ExtractBareScripts(text) ==
    {InlineText(text, open) : open \in {i \in TagOpens(text) : Found(text, i + 1, {">"})
                                              /\ Find(text, i + 1, {">"}) = i + 1}}

ExtractInlineScripts(text) == {InlineText(text, open) : open \in TagOpens(text)}

\* No unwrap panics: each page is a text that is not zipped, and each script of
\* it has both of its ends.
Extractable(assets) ==
    \A i \in DOMAIN assets : assets[i].type = "html" =>
        LET text == assets[i].content.text IN
        /\ assets[i].encoding = "Identity"
        /\ \A open \in TagOpens(text) :
              /\ Found(text, open, EndInGreater)
              /\ Found(text, InlineStart(text, open), {"</script>"})

\* The hashes of the inline scripts of all pages.  A hash stands for its script.
IntegrityHashes(assets) ==
    UNION {ExtractInlineScripts(assets[i].content.text) :
              i \in {j \in DOMAIN assets : assets[j].type = "html"}}

Allowlist(a) == IF a.related_origins = None THEN {} ELSE ToSet(a.related_origins)

\* get_content_security_policy
ContentSecurityPolicy(hashes, a) ==
    [script_src |-> {"self", "unsafe-inline", "unsafe-eval"}, hashes |-> hashes,
     connect_src |-> {"self", "https:"} \cup (IF a.dev_csp THEN {"http:"} ELSE {}),
     frame_ancestors |-> Allowlist(a), frame_src |-> Allowlist(a),
     upgrade_insecure_requests |-> ~a.dev_csp]

\* get_asset_headers: the other headers are constant.
AssetHeaders(hashes, a, cache_control) ==
    [content_security_policy |-> ContentSecurityPolicy(hashes, a),
     publickey_credentials_get |-> Allowlist(a), cache_control |-> cache_control]

\* Mutant: all of the application's own files are kept by browsers.
AppIsCached(asset) ==
    IF asset.type # "html" /\ asset.path[1] = <<"_app">> THEN "immutable" ELSE "no-store"

\* The path as a string begins with "/_app/immutable".
CacheControl(asset) ==
    IF /\ asset.type # "html"
       /\ Len(asset.path) > 1
       /\ asset.path[1] = <<"_app">> /\ asset.path[2][1] \in ImmutableStems
    THEN "immutable" ELSE "no-store"

\* certify_all_assets.  Contents are handed over unzipped.
CertifyAllAssets(tree, a) ==
    LET assets == GetStaticAssets(tree, a)
        hashes == IntegrityHashes(assets)
        Response(asset) ==
            [type |-> asset.type, body |-> asset.content,
             encoding |-> IF asset.type = "html" THEN "Identity" ELSE asset.encoding,
             headers |-> AssetHeaders(hashes, a, CacheControl(asset))]
    IN  [path \in {assets[i].path : i \in DOMAIN assets} |->
            Response(assets[CHOOSE i \in DOMAIN assets : assets[i].path = path])]

\* Any other installation traps.
Installations ==
    {i \in [tree : Releases, args : Arguments] : Extractable(GetStaticAssets(i.tree, i.args))}

\* Browsers keep what they are told to keep, whatever is served later.
Kept(served) ==
    {<<path, served[path].body>> :
        path \in {p \in DOMAIN served : served[p].headers.cache_control = "immutable"}}

Init ==
    /\ \E i \in Installations : args = i.args /\ router = CertifyAllAssets(i.tree, i.args)
    /\ kept = Kept(router)
    /\ upgrades = 0

\* post_upgrade
Upgrade ==
    /\ upgrades < MaxUpgrades
    /\ upgrades' = upgrades + 1
    /\ \E i \in Installations : args' = i.args /\ router' = CertifyAllAssets(i.tree, i.args)
    /\ kept' = kept \cup Kept(router')

Next == Upgrade

Spec == Init /\ [][Next]_vars

-----------------------------------------------------------------------------
(***************************************************************************)
(* The browser (the tokenizer of the HTML standard): what its state is     *)
(* after each lexeme of a text.  In "double", the text of a script has a   *)
(* comment with the start of another script in it, which the next end tag  *)
(* closes.  A quoted value begins with an equals sign and the quote.       *)
(***************************************************************************)

StartTags == {"<script", "<SCRIPT"}
EndTags == {"</script>", "</script/>", "</SCRIPT>"}

Moves ==
    { <<"data", StartTags, "start">>, <<"start", EndInGreater, "script">>,
      <<"start", {"=quote"}, "start_value">>, <<"start_value", {"=quote", "quote"}, "start">>,
      <<"script", EndTags, "data">>, <<"script", {"<!--"}, "escaped">>,
      <<"escaped", EndTags, "data">>, <<"escaped", {"-->"}, "script">>,
      <<"escaped", StartTags, "double">>,
      <<"double", EndTags, "escaped">>, <<"double", {"-->"}, "script">>,
      <<"data", {"<body", "<p"}, "tag">>, <<"tag", EndInGreater, "data">>,
      <<"tag", {"=quote"}, "tag_value">>, <<"tag_value", {"=quote", "quote"}, "tag">>,
      <<"data", {"<!--"}, "comment">>, <<"comment", {"-->"}, "data">> }

After(state, token) ==
    IF \E m \in Moves : m[1] = state /\ token \in m[2]
    THEN (CHOOSE m \in Moves : m[1] = state /\ token \in m[2])[3]
    ELSE state

Tokenize(text) ==
    LET state[n \in 0..Len(text)] ==
            IF n = 0 THEN "data" ELSE After(state[n - 1], text[n])
    IN  state

\* The scripts of a text: where the start tag begins and ends, and the end tag.
Scripts(text) ==
    LET state == Tokenize(text)
        During(first, last, states) == \A k \in first..last : state[k] \in states
    IN  {s \in [open : DOMAIN text, start : DOMAIN text, close : DOMAIN text] :
            /\ s.open < s.start /\ s.start < s.close
            /\ state[s.open - 1] = "data" /\ state[s.close] = "data"
            /\ During(s.open, s.start - 1, {"start", "start_value"})
            /\ During(s.start, s.close - 1, {"script", "escaped", "double"})}

\* A script that is loaded from elsewhere.
IsLoaded(text, s) ==
    \E k \in s.open..s.start : text[k] = "src" /\ Tokenize(text)[k] = "start"

\* A script that is written as bundlers do: its tags in lower case and without
\* further spaces, no ">" in an attribute, and no script in a comment within.
IsPlain(text, s) ==
    /\ text[s.open] = "<script" /\ text[s.close] = "</script>"
    /\ \A k \in s.open..s.start - 1 : text[k] \notin EndInGreater
    /\ \A k \in s.start..s.close : Tokenize(text)[k] # "double"

-----------------------------------------------------------------------------
(***************************************************************************)
(* Properties.                                                             *)
(***************************************************************************)

\* Browsers ignore 'unsafe-inline' as soon as a policy names a hash.
Allows(policy, script) ==
    \/ script \in policy.hashes
    \/ policy.hashes = {} /\ "unsafe-inline" \in policy.script_src

\* The policy of a page lets its plain inline scripts run: what the search of
\* extract_inline_scripts cuts out of the page is what a browser runs, whatever
\* comments, other tags, scripts and injected text are around it.
ScriptsAreAllowed ==
    \A path \in DOMAIN router :
        LET text == router[path].body.text IN
        router[path].type = "html" =>
            \A s \in Scripts(text) :
                IsPlain(text, s) /\ ~IsLoaded(text, s) =>
                    Allows(router[path].headers.content_security_policy,
                           SubSeq(text, s.start + 1, s.close - 1))

\* What a browser keeps of the path is what the canister serves there now.
IsCurrent(entry) ==
    entry[1] \in DOMAIN router => entry[2] = router[entry[1]].body

\* The path begins like the directory of the immutable files, as a string, and
\* is not in it: as /_app/immutable.json.
OnlyBeginsLikeIt(path) == path[2][1] \in ImmutableStems /\ path[2] # <<"immutable">>

\* What browsers keep for a year is current, release after release and with
\* whatever arguments, but for names that only begin like the directory.
CachesAreCurrent == \A entry \in kept : IsCurrent(entry) \/ OnlyBeginsLikeIt(entry[1])

=============================================================================
