SPECIFICATION MCSpec
CONSTANTS
  Programs = {"wait-installed", "verify-solr"}
  Executables = {"wait-installed"}
  Preflight = "preflight"
  Rollout <- MCRollout
  Files = {"compose.yaml", "docker-compose.yml", "compose.override.yaml", "site.yaml"}
  Defaults <- MCDefaults
  Override = "compose.override.yaml"
  Lists <- MCLists
  Volumes <- MCVolumes
  None = None
  Malformed = Malformed
INVARIANTS TypeOK StoppedOnlyWhenBound RolloutHasItsPrograms ConformingIsDeployed
CHECK_DEADLOCK FALSE
