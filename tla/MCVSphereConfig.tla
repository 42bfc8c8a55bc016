-------------------------- MODULE MCVSphereConfig --------------------------
(* Configurations and Infrastructures for TLC.                             *)
EXTENDS VSphereConfig

Sections == {<< >>, [s1 |-> <<"d1">>], [s1 |-> <<"d1">>, s2 |-> << >>]}

SourceOf(formats, sections) ==
    [format : formats, vcenter : sections, labels : {"none", "user"}, ipFamily : {<< >>, <<"v4">>},
     exclude : {[external |-> << >>, internal |-> << <<"own", 24>> >>]}]

VCenters == {<< >>, <<[server |-> "s1", datacenters |-> <<"d2">>]>>,
             <<[server |-> "s2", datacenters |-> <<"d1", "d2">>],
               [server |-> "s1", datacenters |-> << >>]>>}

FailureDomains(servers) ==
    LET one == [server : servers, datacenter : {"d1", "d2"}] IN
    {<< >>} \cup {<<d>> : d \in one} \cup {<<d, e>> : d, e \in one}

InfraOf(vcenters, domains, networks) ==
    [spec : BOOLEAN, vcenters : vcenters, domains : domains,
     exclude : {[external |-> << <<"cidr", 24>> >>, internal |-> << >>]},
     vips : {<< >>, <<[addr |-> "api", family |-> "v4"], [addr |-> "ingress", family |-> "v6"]>>},
     serviceNetwork : networks]

Networks == {<<"v4">>, <<"v6">>, <<"v4", "v6">>, <<"v6", "v4">>}

(* INI and YAML, with and without sections; servers of failure domains may *)
(* have a section in the source, be in the spec, or neither.               *)
MCSources == SourceOf({"ini", "yaml", "broken"}, Sections)
MCInfras == InfraOf(VCenters, FailureDomains({"s1", "s2"}), Networks)

(* A failure domain on a server that has no section anywhere.              *)
MCOneSection == SourceOf({"ini"}, {[s1 |-> <<"d1">>]})
MCOtherInfras == InfraOf({<< >>}, FailureDomains({"s2"}), {<<"v4">>})
=============================================================================
