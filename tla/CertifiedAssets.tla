-------------------------- MODULE CertifiedAssets --------------------------
(***************************************************************************)
(* The assets of a canister with their certification                       *)
(* (asset_util/src/lib.rs: CertifiedAssets), as operators on its value,    *)
(* and how an HTTP gateway verifies a response (the HTTP gateway protocol  *)
(* of the Internet Computer).                                              *)
(*                                                                         *)
(* A hash stands for what is hashed.  The root of the hash tree is the     *)
(* tree; a witness is what the tree holds under a path.  Paths are those   *)
(* of AssetFiles.                                                          *)
(***************************************************************************)
EXTENDS Naturals, Sequences, SequencesExt

CONSTANTS
    None,               \* no answer, no certificate version
    ImmutableParts      \* parts of names that contain "immutable"

Expression == "default_certification"   \* IC_CERTIFICATE_EXPRESSION
EXACT_MATCH_TERMINATOR == <<"<$>">>

Header(name, value) == [name |-> name, value |-> value]

\* The headers as a HashMap: the last value of each name.
HeaderMap(headers) ==
    [name \in {headers[i].name : i \in DOMAIN headers} |->
        headers[CHOOSE i \in DOMAIN headers :
                    /\ headers[i].name = name
                    /\ \A j \in DOMAIN headers : headers[j].name = name => j <= i].value]

ResponseHash(status, headers, body) ==
    [status |-> status, body |-> body,
     headers |-> HeaderMap(Append(headers, Header("IC-CertificateExpression", Expression)))]

NoAssets(shared_headers) ==
    [assets |-> <<>>, v1 |-> <<>>, v2 |-> <<>>, shared |-> shared_headers]

Inserted(f, x, y) == [z \in DOMAIN f \cup {x} |-> IF z = x THEN y ELSE f[z]]

\* Mutant: the subtree of the path is not deleted first.
AddV2WithoutDelete(v2, path, hash) ==
    Inserted(v2, path, {hash} \cup (IF path \in DOMAIN v2 THEN v2[path] ELSE {}))

\* add_certification_v2: what is in the subtree of the path is deleted.
AddV2(v2, path, hash) ==
    LET InSubtree(p) == IsPrefix(Append(path, EXACT_MATCH_TERMINATOR),
                                 Append(p, EXACT_MATCH_TERMINATOR)) IN
    Inserted([p \in {q \in DOMAIN v2 : ~InSubtree(q)} |-> v2[p]], path, {hash})

Add(c, path, status, headers, body, shared_headers) ==
    [c EXCEPT !.v1 = Inserted(@, path, body),
              !.v2 = AddV2(@, path, ResponseHash(status, shared_headers \o headers, body)),
              !.assets = Inserted(@, path, [status |-> status, headers |-> headers, body |-> body])]

Immutable(path) == \E i \in DOMAIN path : \E j \in DOMAIN path[i] : path[i][j] \in ImmutableParts

AssetHeaders(asset) ==
    (IF asset.encoding = "GZip" THEN <<Header("Content-Encoding", "gzip")>> ELSE <<>>)
        \o <<Header("Content-Type", asset.type)>>
        \o (IF Immutable(asset.path) THEN <<Header("Cache-Control", "1 year")>> ELSE <<>>)

CertifyAsset(c, asset, shared_headers) ==
    Add(c, asset.path, 200, AssetHeaders(asset), asset.content, shared_headers)

CertifyRedirect(c, path, location, shared_headers) ==
    Add(c, path, 303, <<Header("Location", location)>>, <<>>, shared_headers)

\* In their order: of several assets under one path the last one stays.
CertifyAssets(assets, shared_headers) ==
    FoldLeft(LAMBDA c, asset : CertifyAsset(c, asset, shared_headers), NoAssets(shared_headers), assets)

RootHash(c) == [v1 |-> c.v1, v2 |-> c.v2]

\* certificate_headers_v1 and _v2, sigs being the root of the signatures.
Certificate(c, path, version, sigs) ==
    [version |-> version, path |-> path, root |-> [assets |-> RootHash(c), sigs |-> sigs]]

\* get_certified_asset: whether there is an asset, and what it is.
HasAsset(c, path) == path \in DOMAIN c.assets

GetCertifiedAsset(c, path, max_certificate_version, sigs) ==
    LET asset == c.assets[path] IN
    IF max_certificate_version # None /\ max_certificate_version >= 2
    THEN [asset EXCEPT !.headers = @ \o
             <<Header("IC-Certificate", Certificate(c, path, 2, sigs)),
               Header("IC-CertificateExpression", Expression)>>]
    ELSE [asset EXCEPT !.headers = Append(@,
             Header("IC-Certificate", Certificate(c, path, 1, sigs)))]

-----------------------------------------------------------------------------
(***************************************************************************)
(* The gateway.                                                            *)
(***************************************************************************)

CertificateOf(response) == HeaderMap(response.headers)["IC-Certificate"]
CertifiedHeaders(response) ==
    LET m == HeaderMap(response.headers) IN [n \in DOMAIN m \ {"IC-Certificate"} |-> m[n]]

\* The response to a request of the path is covered by the certified data: its
\* body under version 1, the whole response under version 2.
Verifies(response, path, certified) ==
    LET certificate == CertificateOf(response)
        tree == certificate.root.assets IN
    /\ certificate.root = certified
    /\ certificate.path = path
    /\ IF certificate.version = 1
       THEN path \in DOMAIN tree.v1 /\ tree.v1[path] = response.body
       ELSE /\ path \in DOMAIN tree.v2
            /\ \E hash \in tree.v2[path] :
                  /\ hash.status = response.status
                  /\ hash.body = response.body
                  /\ hash.headers = CertifiedHeaders(response)

\* No two headers of a response have the same name.
HeadersAreDistinct(response) ==
    \A i, j \in DOMAIN response.headers :
        response.headers[i].name = response.headers[j].name => i = j

=============================================================================
