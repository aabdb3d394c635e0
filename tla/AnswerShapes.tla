--------------------------- MODULE AnswerShapes ---------------------------
(***************************************************************************)
(* The engine's answers as JSON values, the parsers of the editor client   *)
(* that check their form, and the published schemas (bridge/spec/schema).  *)
(* A text, a number or a word of an enumeration is its kind; objects and   *)
(* lists are kept with what is in them.  An integer is written without a   *)
(* fraction and fits the parser's integer, as the engine SDK writes it.    *)
(* "tagged" is an object whose one key is a word of an enumeration and     *)
(* holds null: the other form serde reads a variant from.                  *)
(***************************************************************************)
EXTENDS Integers, Sequences, FiniteSets, SequencesExt

Kinds == {"null", "yes", "no", "text", "empty", "word", "int", "zero", "negative", "fraction",
          "tagged"}
Leaf(kind) == [k |-> kind, items |-> <<>>, of |-> <<>>]
List(items) == [k |-> "list", items |-> items, of |-> <<>>]
Object(fields) == [k |-> "object", items |-> <<>>, of |-> fields]

AnyKind == Kinds \cup {"list", "object"}
Text == {"text", "empty", "word"}
NonEmpty == {"text", "word"}
Bool == {"yes", "no"}
Integer == {"int", "zero", "negative"}

\* A field: whether it must be there, the kinds of a leaf, and the shape of a
\* list's items or of the object it holds.
Must(kinds) == [must |-> TRUE, kinds |-> kinds, items |-> "", inner |-> ""]
May(kinds) == [must |-> FALSE, kinds |-> kinds, items |-> "", inner |-> ""]
MustList(shape) == [must |-> TRUE, kinds |-> {}, items |-> shape, inner |-> ""]
MayList(shape) == [must |-> FALSE, kinds |-> {}, items |-> shape, inner |-> ""]
MustObject(shape) == [must |-> TRUE, kinds |-> {}, items |-> "", inner |-> shape]

Open(fields) == [closed |-> FALSE, fields |-> fields, order |-> <<>>]
Closed(fields) == [closed |-> TRUE, fields |-> fields, order |-> <<>>]

\* A structure that serde reads: also from a list of its fields in their order.
Derived(order, fields) == [closed |-> TRUE, fields |-> fields, order |-> order]

RECURSIVE Matches(_, _, _)

\* required_str, optional_str and their like; a list is checked item by item.
FieldMatches(table, rule, v) ==
    \/ v.k \in rule.kinds
    \/ /\ rule.items # "" /\ v.k = "list"
       /\ \A i \in DOMAIN v.items : Matches(table, rule.items, v.items[i])
    \/ rule.inner # "" /\ Matches(table, rule.inner, v)

\* The object that a list of fields in order stands for; what is left out at the
\* end has its default, and a list that is too long stands for nothing.
Named(order, v) ==
    IF v.k = "list" /\ order # <<>> /\ Len(v.items) <= Len(order)
    THEN Object([f \in {order[i] : i \in DOMAIN v.items} |-> v.items[CHOOSE i \in DOMAIN order : order[i] = f]])
    ELSE v

\* The value has the shape: unknown fields matter only where it is closed.
Matches(table, name, v) ==
    LET shape == table[name]
        o == Named(shape.order, v)
    IN  /\ o.k = "object"
        /\ shape.closed => DOMAIN o.of \subseteq DOMAIN shape.fields
        /\ \A f \in DOMAIN shape.fields :
              IF f \in DOMAIN o.of THEN FieldMatches(table, shape.fields[f], o.of[f])
              ELSE ~shape.fields[f].must

----------------------------------------------------------------------------
(* The parsers.                                                            *)

\* HelloOutcome keeps the fields listed here; the list of capabilities a hello may
\* carry is not read.  A version has its pattern: "word".
ParseHello == Open([sessionId |-> Must(Text), protocolVersion |-> Must({"word"}),
                    server |-> MustObject("server")])
ParseHelloServer == Open([name |-> Must(Text), version |-> May(Text), engine |-> May(Text)])

\* serde takes a null for an Option that is not there.
ParseCapabilities == Derived(<<"capabilities">>, [capabilities |-> MustList("descriptor")])
CapabilityDescriptor ==
    Derived(<<"name", "version", "description">>,
            [name |-> Must({"word"}), version |-> May({"word", "null"}), description |-> May(Text \cup {"null"})])

ParseStatus == Open([engineState |-> Must({"word", "tagged"}), runtimeState |-> Must({"word", "tagged"}),
                     engineName |-> May(Text), engineVersion |-> May(Text), title |-> May(Text)])

ParseSceneTree == Open([root |-> MustObject("node")])
ParseSceneNode == Open([id |-> Must(Text), name |-> May(Text), kind |-> May(Text),
                        children |-> MayList("node")])
ParseSceneEdit == Open([accepted |-> Must(Bool)])
ParseCreateObject == Open([accepted |-> Must(Bool), newId |-> May(Text)])

ParseObjectSnapshot == Open([objectId |-> Must(Text), name |-> May(Text), kind |-> May(Text),
                             properties |-> MustList("property"), components |-> MayList("component")])
ParsePropertyEntry == Open([name |-> Must(Text), value |-> Must(AnyKind), valueType |-> May(Text)])
ParseComponents == Closed([objectId |-> Must(NonEmpty), kind |-> Must(NonEmpty)])

ParseSetProperty == Open([accepted |-> Must(Bool), appliedValue |-> May(AnyKind)])
ParseComponentAdd == Open([accepted |-> Must(Bool), componentId |-> May(NonEmpty)])
ParseComponentRemove == Open([accepted |-> Must(Bool)])
ParseSchemaSnapshot == Open([types |-> MustList("type")])
ParseTypeDescriptor == Open([typeName |-> Must(Text), kind |-> May(Text), instantiable |-> May(Bool),
                             properties |-> MayList("definition")])
ParsePropertyDefinition == Open([name |-> Must(Text), valueType |-> Must(Text)])

ParseAssetResolve == Open([status |-> Must({"word"}), source |-> Must({"word"}),
                           normalizedLogicalPath |-> Must(Text), requiresExplicitLog |-> May(Bool),
                           fallbackAction |-> May(Text), failureKind |-> May(Text), reason |-> May(Text)])
ParseAssetManifest == Open([version |-> Must(Integer), entries |-> MustList("entry"),
                            totalCount |-> Must(Integer), page |-> May(Integer), pageSize |-> May(Integer)])
ParseAssetEntry == Open([logicalPath |-> Must(Text), kind |-> Must(Text), variant |-> May(Text),
                         format |-> May(Text), sourceHash |-> May(Text), cookedPackage |-> May(Text),
                         entryName |-> May(Text), entryType |-> May(Text), cookedHash |-> May(Text),
                         cookedVersion |-> May(Integer)])
ParseAssetReload == Derived(<<"accepted">>, [accepted |-> Must(Bool)])

ParseThumbnail == Open([imageBase64 |-> Must(NonEmpty), mimeType |-> Must(NonEmpty),
                        width |-> May({"int", "zero"}), height |-> May({"int", "zero"})])

Parsers == [
    hello |-> ParseHello, server |-> ParseHelloServer,
    capabilities |-> ParseCapabilities, descriptor |-> CapabilityDescriptor,
    status |-> ParseStatus, tree |-> ParseSceneTree, node |-> ParseSceneNode,
    edited |-> ParseSceneEdit, created |-> ParseCreateObject,
    snapshot |-> ParseObjectSnapshot, property |-> ParsePropertyEntry, component |-> ParseComponents,
    set |-> ParseSetProperty, componentAdded |-> ParseComponentAdd,
    componentRemoved |-> ParseComponentRemove, schema |-> ParseSchemaSnapshot,
    type |-> ParseTypeDescriptor, definition |-> ParsePropertyDefinition,
    resolved |-> ParseAssetResolve, manifest |-> ParseAssetManifest, entry |-> ParseAssetEntry,
    reloaded |-> ParseAssetReload, thumbnail |-> ParseThumbnail]

----------------------------------------------------------------------------
(* The schemas: methods/*.result.schema.json and the $defs of common.      *)

AtLeastZero == {"int", "zero"}

Schemas == [
    hello |-> Closed([sessionId |-> Must(NonEmpty), protocolVersion |-> Must({"word"}),
                      server |-> MustObject("server"), capabilities |-> MayList("descriptor")]),
    server |-> Closed([name |-> Must(NonEmpty), version |-> May(NonEmpty), engine |-> May(NonEmpty)]),
    capabilities |-> Closed([capabilities |-> MustList("descriptor")]),
    descriptor |-> Closed([name |-> Must({"word"}), version |-> May({"word"}),
                           description |-> May(NonEmpty)]),
    status |-> Closed([engineState |-> Must({"word"}), runtimeState |-> Must({"word"}),
                       engineName |-> May(NonEmpty), engineVersion |-> May(NonEmpty), title |-> May(Text)]),
    tree |-> Closed([root |-> MustObject("node")]),
    node |-> Closed([id |-> Must(NonEmpty), name |-> May(NonEmpty), kind |-> May(NonEmpty),
                     children |-> MayList("node")]),
    edited |-> Closed([accepted |-> Must(Bool)]),
    created |-> Closed([accepted |-> Must(Bool), newId |-> May(NonEmpty)]),
    snapshot |-> Closed([objectId |-> Must(NonEmpty), name |-> May(NonEmpty), kind |-> May(NonEmpty),
                         properties |-> MustList("property"), components |-> MayList("component")]),
    property |-> Closed([name |-> Must(NonEmpty), value |-> Must(AnyKind), valueType |-> May(NonEmpty)]),
    component |-> Closed([objectId |-> Must(NonEmpty), kind |-> Must(NonEmpty)]),
    set |-> Closed([accepted |-> Must(Bool), appliedValue |-> May(AnyKind)]),
    componentAdded |-> Closed([accepted |-> Must(Bool), componentId |-> May(NonEmpty)]),
    componentRemoved |-> Closed([accepted |-> Must(Bool)]),
    schema |-> Closed([types |-> MustList("type")]),
    type |-> Closed([typeName |-> Must(NonEmpty), kind |-> May(NonEmpty), instantiable |-> May(Bool),
                     properties |-> MayList("definition")]),
    definition |-> Closed([name |-> Must(NonEmpty), valueType |-> Must(NonEmpty)]),
    resolved |-> Closed([status |-> Must({"word"}), source |-> Must({"word"}),
                         normalizedLogicalPath |-> Must(Text), requiresExplicitLog |-> May(Bool),
                         fallbackAction |-> May(Text), failureKind |-> May(Text), reason |-> May(Text)]),
    manifest |-> Closed([version |-> Must(AtLeastZero), entries |-> MustList("entry"),
                         totalCount |-> Must(AtLeastZero), page |-> May(AtLeastZero),
                         pageSize |-> May({"int"})]),
    entry |-> Closed([logicalPath |-> Must(Text), kind |-> Must(Text), variant |-> May(Text),
                      format |-> May(Text), sourceHash |-> May(Text), cookedPackage |-> May(Text),
                      entryName |-> May(Text), entryType |-> May(Text), cookedHash |-> May(Text),
                      cookedVersion |-> May(AtLeastZero)]),
    reloaded |-> Closed([accepted |-> Must(Bool)]),
    thumbnail |-> Closed([imageBase64 |-> Must(NonEmpty), mimeType |-> Must(NonEmpty),
                          width |-> May({"int"}), height |-> May({"int"})])]

\* The schema's JSON types without its lengths, minima and closed objects.
Loose(kinds) == kinds \cup (IF "text" \in kinds THEN Text ELSE {})
                      \cup (IF "int" \in kinds THEN Integer ELSE {})
Types == [name \in DOMAIN Schemas |->
            Open([f \in DOMAIN Schemas[name].fields |->
                    [Schemas[name].fields[f] EXCEPT !.kinds = Loose(@)]])]

\* The two places where an answer that is passed on as it came may have serde's
\* other form: a state of the engine, and the acknowledgement of a reload.
SerdeTypes ==
    LET state == Must({"word", "tagged"})
    IN  [Types EXCEPT !["status"].fields = [@ EXCEPT !["engineState"] = state, !["runtimeState"] = state],
                      !["reloaded"].order = <<"accepted">>]

----------------------------------------------------------------------------
(* Answers to try: a good one, one that differs from it in one place, or    *)
(* one that is no object.                                                  *)

RECURSIVE Good(_, _)
Good(name, depth) ==
    LET fields == Schemas[name].fields
        Fill(rule) == IF rule.inner # "" THEN Good(rule.inner, depth)
                      ELSE IF rule.items # ""
                           THEN List(IF depth = 0 THEN <<>> ELSE <<Good(rule.items, depth - 1)>>)
                      ELSE Leaf(CHOOSE k \in rule.kinds \cap {"text", "word", "yes", "int"} :
                                    k = "word" => "text" \notin rule.kinds)
    IN  Object([f \in DOMAIN fields |-> Fill(fields[f])])

Without(v, f) == Object([g \in DOMAIN v.of \ {f} |-> v.of[g]])
With(v, f, w) == Object([g \in DOMAIN v.of \cup {f} |-> IF g = f THEN w ELSE v.of[g]])

RECURSIVE Variants(_, _)
Variants(name, depth) ==
    LET fields == Schemas[name].fields
        good == Good(name, depth)
        Inside(f) == IF fields[f].inner # "" THEN Variants(fields[f].inner, depth)
                     ELSE IF fields[f].items # "" /\ depth > 0
                          THEN {List(<<Good(fields[f].items, depth - 1), w>>) :
                                   w \in Variants(fields[f].items, depth - 1)}
                     ELSE {}
        order == Parsers[name].order
        list == [i \in DOMAIN order |-> good.of[order[i]]]
    IN  {good, With(good, "other", Leaf("text"))}
          \cup {Leaf(k) : k \in Kinds} \cup {List(<<good.of[f]>>) : f \in DOMAIN fields}
          \cup {List(Append(list, Leaf("text")))} \cup {List(SubSeq(list, 1, n)) : n \in 0..Len(list)}
          \cup {List([list EXCEPT ![i] = Leaf(k)]) : i \in DOMAIN list, k \in Kinds}
          \cup {Without(good, f) : f \in DOMAIN fields}
          \cup {With(good, f, Leaf(k)) : f \in DOMAIN fields, k \in Kinds}
          \cup {With(good, f, List(<<>>)) : f \in DOMAIN fields}
          \cup UNION {{With(good, f, w) : w \in Inside(f)} : f \in DOMAIN fields}
============================================================================
