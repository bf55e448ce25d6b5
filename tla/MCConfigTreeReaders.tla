------------------------ MODULE MCConfigTreeReaders ------------------------
(* An instance of ConfigTreeReaders for TLC: names that lie beneath one     *)
(* another, are not clean or are drives, and limits that a few entries pass. *)
EXTENDS ConfigTreeReaders

MCSolrConfig == <<"solrconfig.xml">>
MCSchemas == {<<"schema.xml">>}
MCZipFile == <<"config.zip">>
MCNames ==
    {MCSolrConfig, <<"lang">>, <<"lang", "en">>, <<"..", "en">>, <<"c:">>} \cup MCSchemas
=============================================================================
