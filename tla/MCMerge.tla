------------------------------ MODULE MCMerge -------------------------------
(* Instances of Merge for TLC. *)
EXTENDS Merge, TLC

MCKey == {"kind", "spec", "status", "resources", "requests", "storage", "capacity",
          "volumeName", "clusterIP", "type", "other", "selector", "matchLabels", "template",
          "metadata", "labels", "app", "tier", "a", "b"}

\* "1024Mi" and "1Gi" are the same quantity.
MCQuantity == ("1Gi" :> 1) @@ ("1024Mi" :> 1) @@ ("2Gi" :> 2) @@ ("3Gi" :> 3)

MCAtom == {"v", "w", "x", "y", "junk", "ip", "other", "t", "u", "ConfigMap",
           "PersistentVolumeClaim", "Service", "Deployment"} \cup DOMAIN MCQuantity

\* The map with the keys of m.
Full(m) == Map([k \in Key |-> IF k \in DOMAIN m THEN m[k] ELSE Missing])
Only(k, v) == Full(k :> v)

\* The maps whose values are among the options of each key.
Maps(options) ==
    {Full(m) : m \in {f \in [DOMAIN options -> UNION {options[k] : k \in DOMAIN options} \cup {Missing}] :
                         \A k \in DOMAIN options : f[k] \in options[k] \cup {Missing}}}
Keys(ks, values) == [k \in ks |-> values]
Leaves(xs) == {Leaf(x) : x \in xs}
Object(kind, v) == With(v, "kind", Leaf(kind))
Pairs(kind, lives, manifests) ==
    {[live |-> Object(kind, l), desired |-> Object(kind, d)] : l \in lives, d \in manifests}

\* All objects of two levels with two keys each.
AnyLive == Maps(Keys({"a", "b"}, Leaves({"x"}) \cup Maps(Keys({"a", "b"}, Leaves({"x", "y"})))))
AnyManifest ==
    Maps(Keys({"a", "b"},
              {Null} \cup Leaves({"x"}) \cup Maps(Keys({"a", "b"}, {Null} \cup Leaves({"y"})))))

\* A manifest may have a spec, null it, or omit it; a live object has one, with a
\* field that the manifests do not mention.
WithSpec(specs) == {Only("spec", s) : s \in specs}
Manifest(options) == WithSpec({Missing, Null} \cup Maps(options))
Live(spec) == With(spec, "other", Leaf("x"))

Storage(request) == Only("requests", Only("storage", request))
Capacity(x) == Only("capacity", Only("storage", Leaf(x)))

ClaimLive ==
    {Full(("spec" :> Live(Full(("resources" :> Storage(Leaf(x))) @@ ("volumeName" :> volume))))
          @@ ("status" :> status)) :
        x \in {"1Gi", "2Gi"}, volume \in {Missing, Leaf("v")},
        status \in {Missing, Capacity("1024Mi"), Capacity("3Gi")}}
ClaimManifest ==
    {With(m, "status", status) :
        m \in Manifest(("volumeName" :> {Null, Leaf("w")})
                       @@ ("resources" :> ({Null} \cup {Storage(r) : r \in
                              {Null} \cup Leaves({"junk", "1024Mi", "2Gi", "3Gi"})}))),
        status \in {Missing, Null, Capacity("2Gi")}}

ServiceLive ==
    WithSpec({Live(s) : s \in Maps(("clusterIP" :> Leaves({"ip"})) @@ ("type" :> Leaves({"t"})))})
ServiceManifest ==
    Manifest(("clusterIP" :> {Null, Leaf("other")}) @@ ("type" :> {Null, Leaf("u")}))

Labels(ks, xs) == Maps(Keys(ks, xs))
Template(labels) == Only("metadata", Only("labels", labels))
Selector(labels) == Only("matchLabels", labels)

\* A live workload's labels match its selector.
WorkloadLive ==
    WithSpec({Live(Full(("selector" :> Selector(Only("app", Leaf("x"))))
                        @@ ("template" :> Template(Full(("app" :> Leaf("x")) @@ ("tier" :> tier)))))) :
                 tier \in {Missing, Leaf("x")}})
WorkloadManifest ==
    Manifest(("selector" :> ({Null} \cup {Selector(ls) : ls \in Labels({"app", "tier"}, Leaves({"y"}))}))
             @@ ("template" :> {Template(ls) : ls \in
                    {Null} \cup Labels({"app", "tier"}, {Null, Leaf("y")})}))

MCCases ==
    Pairs("ConfigMap", AnyLive, AnyManifest)
        \cup Pairs("PersistentVolumeClaim", ClaimLive, ClaimManifest)
        \cup Pairs("Service", ServiceLive, ServiceManifest)
        \cup Pairs("Deployment", WorkloadLive, WorkloadManifest)

\* The paths of these objects.
MCPaths ==
    LET longest == {Append(p, k) : p \in {LabelsPath, SelectorPath}, k \in {"app", "tier"}}
                       \cup {<<j, k>> : j, k \in {"a", "b"}}
                       \cup {<<"spec", f>> : f \in {"volumeName", "clusterIP", "type", "other"}}
                       \cup {RequestPath, CapacityPath, <<"kind">>}
    IN  UNION {{SubSeq(p, 1, n) : n \in 1 .. Len(p)} : p \in longest}
=============================================================================
