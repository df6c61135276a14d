---------------------------- MODULE ManifestCards ---------------------------
(***************************************************************************)
(* A component of a chat message: RegistryRenderer resolves its payload    *)
(* against the registry (dispatch.ts) and mounts the component, which keeps *)
(* its own state while later payloads of the same type replace its data.   *)
(* Modelled here are the resource table and the region selector            *)
(* (components/registry/components); the database engine selector, which   *)
(* keeps its selection in the same way, is in ClarifyPage.                 *)
(***************************************************************************)
EXTENDS Naturals, Sequences, SequencesExt

VARIABLE card

cardVars == <<card>>

-----------------------------------------------------------------------------
(* Payloads.  Manifests are what the agent may send for the table; a row   *)
(* may depend on one that is not in the manifest.                          *)

Row(id, type, dependsOn) == [id |-> id, type |-> type, dependsOn |-> dependsOn]

Manifests == { << >>,
               <<Row("web", "vm", {"db", "lost"}), Row("db", "sql", {"web"})>>,
               <<Row("web", "vm", {"db"})>> }

\* The regions of a provider that are available and not restricted by policy,
\* the one the payload has selected for its provider, and, when data.providers
\* names both providers, the one it has for the other.
Regions   == {"r1", "r2"}
Providers == {"aws", "gcp"}
Offers  == [ provider: Providers, selectedRegion: {"r1"}, several: BOOLEAN,
             otherRegion: {"", "r2"}, usable: [Providers -> {{"r2"}, Regions}] ]

NoOffer == [provider |-> "aws", selectedRegion |-> "r1", several |-> FALSE, otherRegion |-> "",
            usable |-> [p \in Providers |-> {"r2"}]]

\* Everything in it but the data of a component; valid is what its schema says
\* of the data.
Envelopes == [ sound: BOOLEAN, known: BOOLEAN, version: {"1.0", "1.0.0", "0.9"}, valid: BOOLEAN ]

\* The version has to be the entry's, "1.0", or the same with a patch of 0;
\* any other one is migrated, if the entry can, and checked then.
resolvePayload(p) ==
  CASE ~p.sound                         -> "invalid"
    [] p.sound /\ ~p.known              -> "unknown"
    [] p.sound /\ p.known /\ p.version \in {"1.0", "1.0.0"} ->
         IF p.valid THEN "render" ELSE "invalid"
    [] OTHER -> IF card.migrate = "ok" THEN "render" ELSE "invalid"

\* The data that is rendered satisfies the schema of the entry.
WellFormed(p) == IF p.version = "0.9" THEN card.migrate = "ok" ELSE p.valid

-----------------------------------------------------------------------------
(* Rendering.                                                              *)

FirstState(c) == [c EXCEPT !.filter = "all", !.query = "", !.expanded = "", !.focus = "",
                           !.provider = c.offer.provider]

filterOptions(rows) == {row.type : row \in ToSet(rows)}

\* The effects of a render with new data: a filter that is not offered any more
\* is lifted, and the selector follows a change of the payload's provider.
Effects(before, c) ==
  [c EXCEPT !.filter = IF @ \in filterOptions(c.rows) THEN @ ELSE "all",
            !.provider = IF before.offer.provider # c.offer.provider THEN c.offer.provider ELSE @]

\* The card with a payload; a fallback shows no data.
Payload(p, type, rows, offer) ==
  LET shown == resolvePayload(p) = "render"
  IN  [card EXCEPT !.kind = resolvePayload(p), !.wellFormed = WellFormed(p), !.sent = <<>>,
                   !.type  = IF shown THEN type ELSE "none",
                   !.rows  = IF shown THEN rows ELSE <<>>,
                   !.offer = IF shown THEN offer ELSE NoOffer]

\* RegistryRenderer with a new payload.  A component that is mounted already
\* keeps its state; a fallback, or a component of another type, ends it.
RegistryRenderer ==
  /\ \E p \in Envelopes, type \in {"resource_table", "region_selector"},
        rows \in Manifests, offer \in Offers :
       /\ rows # <<>> \/ offer # NoOffer => p.sound /\ p.known /\ p.valid
       /\ type # "resource_table" => rows = <<>>
       /\ type # "region_selector" => offer = NoOffer
       /\ card' = IF resolvePayload(p) = "render" /\ card.type = type
                  THEN Effects(card, Payload(p, type, rows, offer))
                  ELSE FirstState(Payload(p, type, rows, offer))

-----------------------------------------------------------------------------
(* The resource table.                                                     *)

Table == card.type = "resource_table" /\ card.rows # <<>>

\* The search looks at the row and at what it depends on.
Found(row, query) == query = "" \/ row.id = query \/ query \in row.dependsOn

visibleRows(c) ==
  {row \in ToSet(c.rows) : c.filter \in {"all", row.type} /\ Found(row, c.query)}

clearFilters(c) == [c EXCEPT !.query = "", !.filter = "all"]

SetQuery(q)   == Table /\ card' = [card EXCEPT !.query = q]
SetFilter(f)  == Table /\ f \in filterOptions(card.rows) \cup {"all"}
                       /\ card' = [card EXCEPT !.filter = f]
ClearTable    == Table /\ clearFilters(card) # card /\ card' = clearFilters(card)

ToggleDetails(row) ==
  /\ Table /\ row \in visibleRows(card)
  /\ card' = [card EXCEPT !.expanded = IF @ = row.id THEN "" ELSE row.id]

\* The effect behind focusResourceId, after the next render: the row is looked
\* up in the document; "?" if it is not there.
Focus(c, id) == [c EXCEPT !.expanded = id,
                          !.focus = IF \E row \in visibleRows(c) : row.id = id THEN id ELSE "?"]

\* Mutant of navigateDependency: the filters are not cleared.
navigateDependencyFiltered(id) ==
  \E target \in ToSet(card.rows) : target.id = id /\ card' = Focus(card, id)

\* Nothing happens when the manifest has no such row.
navigateDependency(id) ==
  \E target \in ToSet(card.rows) : target.id = id /\ card' = Focus(clearFilters(card), id)

OpenDependency ==
  /\ Table
  /\ \E row \in visibleRows(card) : \E id \in row.dependsOn : navigateDependency(id)

\* Without onNavigateResource the row itself is opened.
handleNameClick(row) ==
  /\ Table /\ row \in visibleRows(card)
  /\ card' = Focus(card, row.id)

-----------------------------------------------------------------------------
(* The region selector.                                                    *)

Selector == card.type = "region_selector"

activeProvider(c) ==
  IF c.offer.several THEN c.provider ELSE c.offer.provider

acceptedRegion(c) ==
  IF activeProvider(c) = c.offer.provider THEN c.offer.selectedRegion ELSE c.offer.otherRegion

selectedRegion(c) ==
  IF acceptedRegion(c) \in c.offer.usable[activeProvider(c)] THEN acceptedRegion(c) ELSE ""

PickProvider(p) ==
  /\ Selector /\ card.offer.several
  /\ card' = [card EXCEPT !.provider = p]

\* onUpdate; the parent answers with another payload, or does not.
PickRegion(r) ==
  /\ Selector /\ r \in card.offer.usable[activeProvider(card)]
  /\ card' = [card EXCEPT !.sent = <<activeProvider(card), r>>]

-----------------------------------------------------------------------------
CardInit ==
  \E migrate \in {"none", "ok", "bad", "throws"} :
    card = [kind |-> "none", type |-> "none", wellFormed |-> TRUE, migrate |-> migrate,
            rows |-> <<>>, offer |-> NoOffer, filter |-> "all", query |-> "",
            expanded |-> "", focus |-> "", provider |-> "aws", sent |-> <<>>]

CardNext ==
  \/ RegistryRenderer
  \/ \E q \in {"", "web", "db"} : SetQuery(q)
  \/ \E f \in {"all", "vm", "sql"} : SetFilter(f)
  \/ ClearTable \/ OpenDependency
  \/ \E row \in ToSet(card.rows) : ToggleDetails(row) \/ handleNameClick(row)
  \/ \E p \in Providers : PickProvider(p)
  \/ \E r \in Regions : PickRegion(r)

CardTypeOK ==
  /\ card.kind \in {"none", "unknown", "invalid", "render"}
  /\ card.type \in {"none", "resource_table", "region_selector"}
  /\ card.filter \in {"all", "vm", "sql"} /\ card.offer \in Offers

-----------------------------------------------------------------------------
(* Properties.                                                             *)

\* A component is given only data that its schema accepts, whatever version
\* the payload has and whatever its migration makes of it.
RenderedValid == card.kind = "render" => card.wellFormed

\* A dependency or a name that is clicked is found in the document and opened:
\* no filter, and no payload that came in between, hides it.
NavigationFinds == card.focus # "?"

\* Rows are never hidden by a filter that the select no longer offers.
FilterOffered == Table => card.filter \in filterOptions(card.rows) \cup {"all"}

\* A region is marked as selected only for the provider that the payload has
\* selected it for, and only if it can be used there: not for the other one
\* after a switch of the provider, nor after a payload that withdraws it.
SelectionOfProvider ==
  Selector /\ selectedRegion(card) # "" =>
    /\ selectedRegion(card) \in card.offer.usable[activeProvider(card)]
    /\ <<activeProvider(card), selectedRegion(card)>> \in
         {<<card.offer.provider, card.offer.selectedRegion>>}
           \cup {<<p, card.offer.otherRegion>> : p \in Providers \ {card.offer.provider}}

\* A card shows valid data only, and neither filters nor selections of an
\* earlier payload or provider change what it shows.
CardsInv ==
  CardTypeOK /\ RenderedValid /\ NavigationFinds /\ FilterOffered /\ SelectionOfProvider
=============================================================================
