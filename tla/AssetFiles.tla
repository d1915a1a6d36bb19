----------------------------- MODULE AssetFiles -----------------------------
(***************************************************************************)
(* How the files of a build become assets (asset_util/src/lib.rs:          *)
(* collect_assets and what it calls).                                      *)
(*                                                                         *)
(* A file name, and any segment of a path, is the sequence of its parts    *)
(* between dots: "app.js.gz" is <<"app", "js", "gz">>.  A file is a record *)
(* of its directories, its name and its content; a directory tree is the   *)
(* sequence of its files in the order in which they are visited.  A path   *)
(* of a URL is the sequence of its segments, the leading slash left out:   *)
(* "/foo/" is << <<"foo">>, <<"">> >>.                                     *)
(***************************************************************************)
EXTENDS Naturals, Sequences, SequencesExt

EmptySegment == <<"">>
Index == <<"index", "html">>
WellKnown(name) == << <<"", "well-known">>, <<name>> >>

KNOWN_FILES == {WellKnown(n) : n \in {"ic-domains", "webauthn", "ii-alternative-origins"}}

Extensions ==
    {"css", "html", "ico", "json", "js", "png", "svg", "webp", "woff2", "txt", "xml"}

FilePath(f) == Append(f.dirs, f.name)

\* content_type_and_encoding
TypeAndEncoding(f) ==
    IF FilePath(f) \in KNOWN_FILES THEN [type |-> "json", encoding |-> "Identity"]
    ELSE IF Last(f.name) = "gz"
         THEN [type |-> f.name[Len(f.name) - 1], encoding |-> "GZip"]
         ELSE [type |-> Last(f.name), encoding |-> "Identity"]

\* content_type_and_encoding does not panic.
Collectable(f) ==
    \/ FilePath(f) \in KNOWN_FILES
    \/ Len(f.name) > 1 /\ TypeAndEncoding(f).type \in Extensions

\* The name without the suffixes ".gz" that filepath_to_urlpaths strips.
Unzipped(name) ==
    LET Stripped(n) == \A i \in n + 1..Len(name) : name[i] = "gz" IN
    SubSeq(name, 1, CHOOSE n \in 1..Len(name) : Stripped(n) /\ (n = 1 \/ name[n] # "gz"))

Page(page) == {page, Append(page, EmptySegment), Append(page, Index)}

\* filepath_to_urlpaths
UrlPaths(f) ==
    LET last == Unzipped(f.name) IN
    IF last = Index
    THEN IF f.dirs = <<>> THEN {<<EmptySegment>>, <<Index>>} ELSE Page(f.dirs)
    ELSE IF Len(last) > 1 /\ Last(last) = "html" THEN Page(Append(f.dirs, Front(last)))
    ELSE {Append(f.dirs, last)}

AssetOf(path, f) ==
    [path |-> path, content |-> f.content,
     type |-> TypeAndEncoding(f).type, encoding |-> TypeAndEncoding(f).encoding]

\* collect_assets without a transformer.
Collect(tree) ==
    FlattenSeq([i \in DOMAIN tree |->
        [j \in DOMAIN SetToSeq(UrlPaths(tree[i])) |->
            AssetOf(SetToSeq(UrlPaths(tree[i]))[j], tree[i])]])

ContentsOf(tree) == {tree[i].content : i \in DOMAIN tree}

\* collect_assets with a transformer of HTML files, a function of contents.
CollectTransformed(tree, transform) ==
    LET assets == Collect(tree) IN
    [i \in DOMAIN assets |->
        IF assets[i].type = "html" THEN [assets[i] EXCEPT !.content = transform[@]] ELSE assets[i]]

\* "This assumes that the bundler creating the assets directory creates sensible
\* assets": no two files have a URL path in common.
Sensible(tree) ==
    /\ \A i \in DOMAIN tree : Collectable(tree[i])
    /\ \A i, j \in DOMAIN tree : i # j => UrlPaths(tree[i]) \cap UrlPaths(tree[j]) = {}

=============================================================================
